---- MODULE Spec2Model ----
(***************************************************************************)
(* Question-bank application: the similar-options engine                   *)
(* (similar-options.ts), the Home page's filter pipeline, ordering and     *)
(* handlers (app/page.tsx), the explanation panel (explanation-panel.tsx)  *)
(* and the export button of the header (header.tsx).                       *)
(*                                                                         *)
(* Strings are sequences of one-character strings over printable ASCII     *)
(* plus TAB.  Numbers produced by divisions (similarity scores) are exact  *)
(* fractions <<n, d>> in lowest terms.  32-bit words are pairs             *)
(* <<hi, lo>> of 16-bit limbs.                                             *)
(***************************************************************************)
EXTENDS Integers, Sequences, FiniteSets, TLC

VARIABLES
    questions,          \* page.tsx:74   the question collection
    isLoading,          \* page.tsx:75
    filteredQuestions,  \* page.tsx:76   the displayed list
    searchQuery,        \* page.tsx:77
    filters,            \* page.tsx:78
    sort,               \* page.tsx:79
    showAllAnswers,     \* page.tsx:80
    userAnswers,        \* page.tsx:81
    isExamMode,         \* page.tsx:89
    isExamFinished,     \* page.tsx:92
    examScore,          \* page.tsx:93
    savedQuestionIds,   \* page.tsx:100
    clock,              \* the value Date.now() last returned (page.tsx:320), in days
    similarBucket,      \* the local similarBucket of the last filter-effect run (page.tsx:348)
    call,               \* a pending call of one of the pure functions: its name and arguments
    ret,                \* what that call returned
    selectedQuestionForExplanation,  \* page.tsx:84
    isExplanationPanelOpen,          \* page.tsx:83
    explanation,        \* explanation-panel.tsx:72
    explanationLoading, \* explanation-panel.tsx:73  the panel's isLoading
    explainRequests,    \* the calls of handleExplainQuestion in flight, oldest first
    level,              \* explanation-panel.tsx:70
    language,           \* explanation-panel.tsx:71
    isLocked,           \* header.tsx:79  useLock()
    isExportDialogOpen, \* header.tsx:76
    sessionStored,      \* sessionStorage["questionsForExport"]
    route,              \* the page the router shows
    toasts,             \* the titles toast() was called with, oldest first
    consoleErrors,      \* the messages console.error was called with, oldest first
    exportPageQuestions,  \* export/page.tsx:13  the export page's questions
    exportPageLoading,    \* export/page.tsx:14  the export page's isLoading
    exportTimer,        \* the export page's setTimeout (export/page.tsx:20): none, pending, fired
    heldHandlers        \* collection handlers handed out by a render and not yet called,
                        \* each with the questions its closure holds (page.tsx:546-547)

vars == <<questions, isLoading, filteredQuestions, searchQuery, filters, sort,
          showAllAnswers, userAnswers, isExamMode, isExamFinished, examScore,
          savedQuestionIds, clock, similarBucket, call, ret,
          selectedQuestionForExplanation, isExplanationPanelOpen, explanation,
          explanationLoading, explainRequests, level, language, isLocked, isExportDialogOpen,
          sessionStored, route, toasts, consoleErrors, exportPageQuestions,
          exportPageLoading, exportTimer, heldHandlers>>

homeVars == <<questions, isLoading, filteredQuestions, searchQuery, filters, sort,
              showAllAnswers, userAnswers, isExamMode, isExamFinished, examScore,
              savedQuestionIds, clock, similarBucket>>

fnVars == <<call, ret>>

panelVars == <<selectedQuestionForExplanation, isExplanationPanelOpen, explanation,
               explanationLoading, explainRequests, level, language>>

exportVars == <<isLocked, isExportDialogOpen, sessionStored, route>>

exportPageVars == <<exportPageQuestions, exportPageLoading, exportTimer>>

\* what the home page's handlers of the panel and the header leave alone
otherVars == <<heldHandlers, exportPageVars>>

uiVars == <<panelVars, exportVars, toasts, consoleErrors, otherVars>>

\* null where a pair or a string is expected: no pair and no string is empty here
\* (a best pair has two entries, a cluster key holds the separator)
NullPair == <<>>
NullKey == <<>>

\* null where a question is expected
NoQuestion == <<>>

(***************************************************************************)
(* JavaScript values that reach extractOptions: tagged records.  An object *)
(* is its sequence of <<key, value>> pairs in insertion order.             *)
(***************************************************************************)
JStr(s) == [t |-> "string", v |-> s]
JNum(n) == [t |-> "number", v |-> n]
JBool(b) == [t |-> "boolean", v |-> b]
JArr(xs) == [t |-> "array", v |-> xs]
JObj(kvs) == [t |-> "object", v |-> kvs]
JNull == [t |-> "null", v |-> <<>>]
JUndef == [t |-> "undefined", v |-> <<>>]

(***************************************************************************)
(* A sequence or a table given by a rule, written out in full (a value     *)
(* built by [x \in S |-> e] is otherwise recomputed at every use).         *)
(***************************************************************************)
Array(f) == f \o <<>>
Table(f) == f @@ <<>>

\* F of the value of e, which is computed once: "const v = e; return F(v)"
With(e, F(_)) == CHOOSE r \in {F(v) : v \in {e}} : TRUE

(***************************************************************************)
(* Characters: printable ASCII by code 32..126 (the entries written <n>    *)
(* stand for characters that no modelled string uses) and TAB.             *)
(***************************************************************************)
Ascii ==
    <<" ", "!", "<34>", "#", "$", "%", "&", "'", "<40>", "<41>", "<42>", "+", ",", "-", ".", "/",
      "0", "1", "2", "3", "4", "5", "6", "7", "8", "9", ":", ";", "<", "=", ">", "?",
      "@", "A", "B", "C", "D", "E", "F", "G", "H", "I", "J", "K", "L", "M", "N", "O",
      "P", "Q", "R", "S", "T", "U", "V", "W", "X", "Y", "Z", "[", "<92>", "]", "^", "_",
      "<96>", "a", "b", "c", "d", "e", "f", "g", "h", "i", "j", "k", "l", "m", "n", "o",
      "p", "q", "r", "s", "t", "u", "v", "w", "x", "y", "z", "{", "|", "}", "~">>

Tab == "\t"

CharSet == {Ascii[i] : i \in 1..Len(Ascii)} \cup {Tab}

CodeTable == Table([c \in CharSet |->
                IF c = Tab THEN 9 ELSE 31 + (CHOOSE i \in 1..Len(Ascii) : Ascii[i] = c)])

\* String.prototype.charCodeAt
charCodeAt(c) == CodeTable[c]

fromCharCode(n) == IF n = 9 THEN Tab ELSE Ascii[n - 31]

IsUpper(c) == charCodeAt(c) >= 65 /\ charCodeAt(c) <= 90
IsLower(c) == charCodeAt(c) >= 97 /\ charCodeAt(c) <= 122
IsDigit(c) == charCodeAt(c) >= 48 /\ charCodeAt(c) <= 57
\* \s
IsSpace(c) == c = " " \/ c = Tab
\* [\p{L}\p{N}\s]
IsLetterDigitSpace(c) == IsUpper(c) \/ IsLower(c) \/ IsDigit(c) \/ IsSpace(c)

toLowerCaseChar(c) == IF IsUpper(c) THEN fromCharCode(charCodeAt(c) + 32) ELSE c

\* String.prototype.toLowerCase
toLowerCase(s) == Array([i \in 1..Len(s) |-> toLowerCaseChar(s[i])])

RECURSIVE TrimStart(_)
TrimStart(s) == IF s = <<>> \/ ~IsSpace(Head(s)) THEN s ELSE TrimStart(Tail(s))

RECURSIVE TrimEnd(_)
TrimEnd(s) ==
    IF s = <<>> \/ ~IsSpace(s[Len(s)]) THEN s ELSE TrimEnd(SubSeq(s, 1, Len(s) - 1))

\* String.prototype.trim
trim(s) == TrimEnd(TrimStart(s))

\* .replace(/[^\p{L}\p{N}\s]/gu, " ")
replaceSymbols(s) ==
    Array([i \in 1..Len(s) |-> IF IsLetterDigitSpace(s[i]) THEN s[i] ELSE " "])

\* .replace(/\s+/g, " "): every maximal run of whitespace becomes one space
RECURSIVE collapseFrom(_, _)
collapseFrom(s, i) ==
    IF i > Len(s) THEN <<>>
    ELSE IF ~IsSpace(s[i]) THEN <<s[i]>> \o collapseFrom(s, i + 1)
    ELSE IF i > 1 /\ IsSpace(s[i - 1]) THEN collapseFrom(s, i + 1)
    ELSE <<" ">> \o collapseFrom(s, i + 1)

collapseSpaces(s) == collapseFrom(s, 1)

\* String.prototype.includes
includes(s, t) ==
    \E p \in 0..(Len(s) - Len(t)) : \A k \in 1..Len(t) : s[p + k] = t[k]

\* Array.prototype.join
RECURSIVE join(_, _)
join(parts, sep) ==
    IF parts = <<>> THEN <<>>
    ELSE IF Len(parts) = 1 THEN parts[1]
    ELSE parts[1] \o sep \o join(Tail(parts), sep)

(***************************************************************************)
(* Fractions                                                               *)
(***************************************************************************)
RECURSIVE Gcd(_, _)
Gcd(a, b) == IF b = 0 THEN a ELSE Gcd(b, a % b)

Frac(n, d) == With(Gcd(n, d), LAMBDA g : <<n \div g, d \div g>>)

FZero == <<0, 1>>
FOne == <<1, 1>>
FLess(x, y) == x[1] * y[2] < y[1] * x[2]
FLeq(x, y) == x[1] * y[2] <= y[1] * x[2]
FAdd(x, y) == Frac(x[1] * y[2] + y[1] * x[2], x[2] * y[2])
FDivInt(x, k) == Frac(x[1], x[2] * k)
FMax(x, y) == IF FLess(x, y) THEN y ELSE x

(***************************************************************************)
(* similar-options.ts                                                      *)
(***************************************************************************)
\* DEFAULTS: threshold 0.88, minLen 6
DEFAULTS == [threshold |-> Frac(88, 100), minLen |-> 6]

normalizeText(s) ==
    collapseSpaces(replaceSymbols(trim(toLowerCase(s))))

\* the bigrams of the text as given, not of its normalized form
bigramsOfRaw(s) ==
    IF Len(s) < 2 THEN <<>>
    ELSE Array([i \in 1..(Len(s) - 1) |-> SubSeq(s, i, i + 1)])

bigrams(s) ==
    With(normalizeText(s), LAMBDA t :
        IF Len(t) < 2 THEN <<>>
        ELSE Array([i \in 1..(Len(t) - 1) |-> SubSeq(t, i, i + 1)]))

\* the loop of diceSimilarity over B: freq is the count map, k the position in B
RECURSIVE countMatches(_, _, _)
countMatches(freq, B, k) ==
    IF k > Len(B) THEN 0
    ELSE IF B[k] \in DOMAIN freq /\ freq[B[k]] > 0
         THEN 1 + countMatches([freq EXCEPT ![B[k]] = @ - 1], B, k + 1)
         ELSE countMatches(freq, B, k + 1)

bigramFreq(A) ==
    Table([x \in {A[i] : i \in 1..Len(A)} |-> Cardinality({i \in 1..Len(A) : A[i] = x})])

\* a count of the bigrams of B found in A that never uses a bigram of A up
diceSimilarityNoDecrement(a, b) ==
    With(<<bigrams(a), bigrams(b)>>, LAMBDA AB :
        IF Len(AB[1]) = 0 \/ Len(AB[2]) = 0 THEN FZero
        ELSE Frac(2 * Cardinality({k \in 1..Len(AB[2]) :
                                      \E i \in 1..Len(AB[1]) : AB[1][i] = AB[2][k]}),
                  Len(AB[1]) + Len(AB[2])))

\* AB is <<A, B>>, the bigrams of a and of b
diceSimilarity(a, b) ==
    With(<<bigrams(a), bigrams(b)>>, LAMBDA AB :
        IF Len(AB[1]) = 0 \/ Len(AB[2]) = 0 THEN FZero
        ELSE Frac(2 * countMatches(bigramFreq(AB[1]), AB[2], 1), Len(AB[1]) + Len(AB[2])))

\* /^[a-d]$/.test(x)
isLabel(x) == Len(x) = 1 /\ x[1] \in {"a", "b", "c", "d"}

isWorthComparing(a, b, minLen) ==
    \A na \in {normalizeText(a)} : \A nb \in {normalizeText(b)} :
       /\ na # <<>> /\ nb # <<>>
       /\ ~(Len(na) < minLen \/ Len(nb) < minLen)
       /\ ~(isLabel(na) \/ isLabel(nb))

\* x ?? y
Nullish(x) == x.t \in {"null", "undefined"}
Coalesce(x, y) == IF Nullish(x) THEN y ELSE x

\* !x
Falsy(x) ==
    \/ Nullish(x)
    \/ x.t = "string" /\ x.v = <<>>
    \/ x.t = "number" /\ x.v = 0
    \/ x.t = "boolean" /\ x.v = FALSE

\* q?.name on a question record
Field(q, name) == IF name \in DOMAIN q THEN q[name] ELSE JUndef

\* x.name (x?.name) on a JavaScript value: only objects have own properties here
Prop(x, name) ==
    IF x.t = "object" /\ \E i \in 1..Len(x.v) : x.v[i][1] = name
    THEN x.v[CHOOSE i \in 1..Len(x.v) : x.v[i][1] = name][2]
    ELSE JUndef

RECURSIVE Digits(_)
Digits(n) == IF n < 10 THEN <<fromCharCode(48 + n)>>
             ELSE Digits(n \div 10) \o <<fromCharCode(48 + (n % 10))>>

sTrue == <<"t", "r", "u", "e">>
sFalse == <<"f", "a", "l", "s", "e">>
sObjectObject == <<"[", "o", "b", "j", "e", "c", "t", " ", "O", "b", "j", "e", "c", "t", "]">>

\* String(x)
RECURSIVE String(_)
String(x) ==
    CASE x.t = "string" -> x.v
      [] x.t = "number" -> IF x.v < 0 THEN <<"-">> \o Digits(0 - x.v) ELSE Digits(x.v)
      [] x.t = "boolean" -> IF x.v THEN sTrue ELSE sFalse
      [] x.t = "null" -> <<"n", "u", "l", "l">>
      [] x.t = "undefined" -> <<"u", "n", "d", "e", "f", "i", "n", "e", "d">>
      [] x.t = "array" ->
            join(Array([i \in 1..Len(x.v) |->
                           IF Nullish(x.v[i]) THEN <<>> ELSE String(x.v[i])]), <<",">>)
      [] x.t = "object" -> sObjectObject

NonEmpty(strs) == SelectSeq(Array(strs), LAMBDA s : s # <<>>)

\* the callback of raw.map (similar-options.ts:78-82)
fromArrayItem(x) ==
    IF x.t = "string" THEN x.v
    ELSE IF x.t \in {"object", "array"}
         THEN String(Coalesce(Prop(x, "text"),
                     Coalesce(Prop(x, "label"),
                     Coalesce(Prop(x, "value"), JStr(<<>>)))))
         ELSE <<>>

\* the callback of Object.values(raw).map (similar-options.ts:89)
fromMapValue(x) ==
    IF x.t = "string" THEN x.v
    ELSE String(Coalesce(Prop(x, "text"),
                Coalesce(Prop(x, "label"), Coalesce(x, JStr(<<>>)))))

extractOptions(q) ==
    With(Coalesce(Field(q, "options"),
         Coalesce(Field(q, "choices"),
         Coalesce(Field(q, "answerOptions"),
         Coalesce(Field(q, "answers"),
         Coalesce(Field(q, "answersList"), Field(q, "optionsText")))))),
         LAMBDA raw :
            IF Falsy(raw) THEN <<>>
            ELSE IF raw.t = "array"
                 THEN NonEmpty([i \in 1..Len(raw.v) |-> trim(fromArrayItem(raw.v[i]))])
            ELSE IF raw.t = "object"
                 THEN NonEmpty([i \in 1..Len(raw.v) |-> trim(fromMapValue(raw.v[i][2]))])
            ELSE <<>>)

\* the pairs (i, j), i < j, in the order the two loops of getSimilarOptionsMeta visit them
RECURSIVE optionPairsFrom(_, _, _)
optionPairsFrom(n, i, j) ==
    IF i > n THEN <<>>
    ELSE IF j > n THEN optionPairsFrom(n, i + 1, i + 2)
    ELSE <<<<i, j>>>> \o optionPairsFrom(n, i, j + 1)

\* only the pairs (i, i + 1)
adjacentPairs(n) == Array([i \in 1..(IF n > 0 THEN n - 1 ELSE 0) |-> <<i, i + 1>>])

optionPairs(n) == optionPairsFrom(n, 1, 2)

\* one iteration of the inner loop body (similar-options.ts:105-121)
\* containment (similar-options.ts:113-116) of two normalized strings
containment(na, nb) ==
    IF Len(na) > 10 /\ Len(nb) > 10 /\ (includes(na, nb) \/ includes(nb, na))
    THEN Frac(92, 100) ELSE FZero

\* a pair scores only when its normalized texts are equal
scanPairExactOnly(best, a, b, minLen) ==
    IF ~isWorthComparing(a, b, minLen) THEN best
    ELSE IF normalizeText(a) = normalizeText(b) THEN [score |-> FOne, pair |-> <<a, b>>]
    ELSE best

\* one iteration of the inner loop body (similar-options.ts:105-121); n is
\* <<na, nb>>
scanPair(best, a, b, minLen) ==
    IF ~isWorthComparing(a, b, minLen) THEN best
    ELSE With(<<normalizeText(a), normalizeText(b)>>, LAMBDA n :
            IF n[1] = n[2] THEN [score |-> FOne, pair |-> <<a, b>>]
            ELSE With(FMax(diceSimilarity(a, b), containment(n[1], n[2])), LAMBDA score :
                    IF FLess(best.score, score)
                    THEN [score |-> score, pair |-> <<a, b>>]
                    ELSE best))

RECURSIVE scanPairs(_, _, _, _, _)
scanPairs(best, options, pairs, k, minLen) ==
    IF k > Len(pairs) THEN best
    ELSE scanPairs(scanPair(best, options[pairs[k][1]], options[pairs[k][2]], minLen),
                   options, pairs, k + 1, minLen)

\* Array.prototype.sort() of two strings: by UTF-16 code units
RECURSIVE StrLeq(_, _)
StrLeq(a, b) ==
    IF a = <<>> THEN TRUE
    ELSE IF b = <<>> THEN FALSE
    ELSE IF charCodeAt(Head(a)) # charCodeAt(Head(b))
         THEN charCodeAt(Head(a)) < charCodeAt(Head(b))
    ELSE StrLeq(Tail(a), Tail(b))

\* [na, nb].sort().join("|")
sortedKey(na, nb) == IF StrLeq(na, nb) THEN na \o <<"|">> \o nb ELSE nb \o <<"|">> \o na

\* the two loops (similar-options.ts:101-123): the value best ends with
bestPairOf(options, minLen) ==
    scanPairs([score |-> FZero, pair |-> NullPair], options, optionPairs(Len(options)), 1,
              minLen)

\* a result that names the best pair only when it reaches the threshold
metaOfSimilarOnly(best, hasSimilar) ==
    [hasSimilar |-> hasSimilar, maxSimilarity |-> best.score,
     clusterKey |-> IF hasSimilar /\ best.pair # NullPair
                    THEN sortedKey(normalizeText(best.pair[1]), normalizeText(best.pair[2]))
                    ELSE NullKey,
     bestPair |-> IF hasSimilar THEN best.pair ELSE NullPair]

\* what getSimilarOptionsMeta returns once its loops have left best
metaOf(best, hasSimilar) ==
    [hasSimilar |-> hasSimilar, maxSimilarity |-> best.score,
     clusterKey |-> IF hasSimilar /\ best.pair # NullPair
                    THEN sortedKey(normalizeText(best.pair[1]), normalizeText(best.pair[2]))
                    ELSE NullKey,
     bestPair |-> best.pair]

\* the defaults whatever cfg holds
defaultConfig(cfg) == DEFAULTS

\* { ...DEFAULTS, ...(cfg ?? {}) }: cfg is a record of some of the fields of
\* DEFAULTS, the empty one for a call without cfg
mergeConfig(cfg) ==
    [k \in DOMAIN DEFAULTS |-> IF k \in DOMAIN cfg THEN cfg[k] ELSE DEFAULTS[k]]

getSimilarOptionsMeta(q, cfg) ==
    With(mergeConfig(cfg), LAMBDA c :
        With(bestPairOf(extractOptions(q), c.minLen), LAMBDA best :
            metaOf(best, FLeq(c.threshold, best.score))))

(***************************************************************************)
(* 32-bit words <<hi, lo>> (Math.imul, ^, |, >>>, and ToInt32 of sums)     *)
(***************************************************************************)
W16 == 2 ^ 16

RECURSIVE xorBits(_, _, _)
xorBits(a, b, n) ==
    IF n = 0 THEN 0
    ELSE ((a + b) % 2) + 2 * xorBits(a \div 2, b \div 2, n - 1)

RECURSIVE orBits(_, _, _)
orBits(a, b, n) ==
    IF n = 0 THEN 0
    ELSE (IF a % 2 = 1 \/ b % 2 = 1 THEN 1 ELSE 0) + 2 * orBits(a \div 2, b \div 2, n - 1)

\* ^ and | on 4-bit digits, tabulated
XorTable == Table([a \in 0..15 |-> Table([b \in 0..15 |-> xorBits(a, b, 4)])])
OrTable == Table([a \in 0..15 |-> Table([b \in 0..15 |-> orBits(a, b, 4)])])

\* a 16-bit limb combined digit by digit
digitwise(T, a, b) ==
    T[a % 16][b % 16]
    + 16 * T[(a \div 16) % 16][(b \div 16) % 16]
    + 256 * T[(a \div 256) % 16][(b \div 256) % 16]
    + 4096 * T[a \div 4096][b \div 4096]

WXor(a, b) == <<digitwise(XorTable, a[1], b[1]), digitwise(XorTable, a[2], b[2])>>
WOr(a, b) == <<digitwise(OrTable, a[1], b[1]), digitwise(OrTable, a[2], b[2])>>
WAdd(a, b) == <<(a[1] + b[1] + ((a[2] + b[2]) \div W16)) % W16, (a[2] + b[2]) % W16>>

\* x * y mod 2^16, for 16-bit x and y, without leaving 31 bits
MulLow16(x, y) == (x * (y % 256) + ((x * (y \div 256)) % 256) * 256) % W16
\* floor(x * y / 2^16), for 16-bit x and y
MulHigh16(x, y) ==
    (x * (y % 256) + ((x * (y \div 256)) % 256) * 256) \div W16 + ((x * (y \div 256)) \div 256)

\* Math.imul
imul(a, b) ==
    <<(MulHigh16(a[2], b[2]) + MulLow16(a[1], b[2]) + MulLow16(a[2], b[1])) % W16,
      MulLow16(a[2], b[2])>>

Pow2(k) == 2 ^ k

\* a >>> k, for 0 < k < 16
ushr(a, k) == <<a[1] \div Pow2(k), (a[2] \div Pow2(k)) + (a[1] % Pow2(k)) * Pow2(16 - k)>>

Word(n) == <<0, n>>

\* 2166136261 = 0x811C9DC5, 16777619 = 0x01000193, 0x6D2B79F5
FnvOffset == <<33052, 40389>>
FnvPrime == <<256, 403>>
RndStep == <<27947, 31221>>


\* the seed loop of seededShuffle (page.tsx:197-201)
RECURSIVE hashSeed(_, _, _)
hashSeed(h, seed, i) ==
    IF i > Len(seed) THEN h
    ELSE With(imul(WXor(h, Word(charCodeAt(seed[i]))), FnvPrime), LAMBDA h1 :
            hashSeed(h1, seed, i + 1))

\* rnd (page.tsx:202-207): the generator's state after the call, and the 32-bit
\* numerator u of the value u / 4294967296 it returns
\* let t = Math.imul(h ^ (h >>> 15), 1 | h), for the h just advanced
rndMix1(h1) == imul(WXor(h1, ushr(h1, 15)), WOr(Word(1), h1))
\* t ^= t + Math.imul(t ^ (t >>> 7), 61 | t)
rndMix2(t1) == WXor(t1, WAdd(t1, imul(WXor(t1, ushr(t1, 7)), WOr(Word(61), t1))))
\* (t ^ (t >>> 14)) >>> 0
rndOut(t2) == WXor(t2, ushr(t2, 14))

rnd(h) ==
    With(WAdd(h, RndStep), LAMBDA h1 : [h |-> h1, u |-> rndOut(rndMix2(rndMix1(h1)))])

\* Math.floor(u / 4294967296 * n), for a small n
scaleDraw(u, n) == (u[1] * n + ((u[2] * n) \div W16)) \div W16

swap(arr, i, j) == [arr EXCEPT ![i] = arr[j], ![j] = arr[i]]

(***************************************************************************)
(* app/page.tsx: constants and helpers                                     *)
(***************************************************************************)
EXAM_QUESTION_COUNT == 90
RECENT_DAYS == 10

\* Infinity, as returned by getChapterNumber: above every chapter number
Infinity == 1000000000

sAll == <<"a", "l", "l">>
sQuiz == <<"q", "u", "i", "z">>
sChapterSp == <<"C", "h", "a", "p", "t", "e", "r", " ">>
chapter_asc == <<"c", "h", "a", "p", "t", "e", "r", "_", "a", "s", "c">>
chapter_desc == <<"c", "h", "a", "p", "t", "e", "r", "_", "d", "e", "s", "c">>
random == <<"r", "a", "n", "d", "o", "m">>

initialFilters ==
    [chapter |-> <<>>, questionType |-> <<>>, showSavedOnly |-> FALSE,
     quiz |-> sAll, recentOnly |-> FALSE, groupSimilarOptions |-> FALSE]

\* the longest prefix of s made of digits
RECURSIVE digitPrefix(_)
digitPrefix(s) ==
    IF s = <<>> \/ ~IsDigit(Head(s)) THEN <<>> ELSE <<Head(s)>> \o digitPrefix(Tail(s))

RECURSIVE digitsValue(_)
digitsValue(ds) ==
    IF ds = <<>> THEN 0
    ELSE 10 * digitsValue(SubSeq(ds, 1, Len(ds) - 1)) + (charCodeAt(ds[Len(ds)]) - 48)

\* parseInt(s, 10) of an unsigned string: nan when no digit leads it
parseInt(s) ==
    With(digitPrefix(TrimStart(s)), LAMBDA ds : [nan |-> ds = <<>>, n |-> digitsValue(ds)])

\* s.replace(pat, "") with a string pattern: the first occurrence is removed
\* is t at offset p of s
occursAt(s, t, p) == p + Len(t) <= Len(s) /\ \A k \in 1..Len(t) : s[p + k] = t[k]

\* String.prototype.indexOf, -1 when t is not in s
indexOf(s, t) ==
    IF \E p \in 0..Len(s) : occursAt(s, t, p)
    THEN CHOOSE p \in 0..Len(s) : occursAt(s, t, p) /\ \A r \in 0..(p - 1) : ~occursAt(s, t, r)
    ELSE 0 - 1

removeFirst(s, pat) ==
    With(indexOf(s, pat), LAMBDA p :
        IF p < 0 THEN s ELSE SubSeq(s, 1, p) \o SubSeq(s, p + Len(pat) + 1, Len(s)))

\* getChapterNumber: the number after the first "Chapter " that a digit follows
Min(S) == CHOOSE m \in S : \A y \in S : m <= y

\* the offsets at which /Chapter (\d+)/ matches
chapterMatches(s) ==
    {p \in 0..(Len(s) - Len(sChapterSp) - 1) :
        occursAt(s, sChapterSp, p) /\ IsDigit(s[p + Len(sChapterSp) + 1])}

getChapterNumber(chapterString) ==
    With(chapterMatches(chapterString), LAMBDA starts :
        IF starts = {} THEN Infinity
        ELSE digitsValue(digitPrefix(SubSeq(chapterString, Min(starts) + Len(sChapterSp) + 1,
                                            Len(chapterString)))))

\* Array.prototype.sort by a comparator that subtracts numeric keys, K[i] being
\* the key of arr[i], smaller keys first: the sort is stable, so entries whose
\* comparison gives 0 (or NaN, Infinity - Infinity) keep their order
sortedPos(K, i) ==
    1 + Cardinality({j \in 1..Len(K) : K[j] < K[i] \/ (K[j] = K[i] /\ j < i)})

stableSort(arr, K) ==
    Array([p \in 1..Len(arr) |-> arr[CHOOSE i \in 1..Len(arr) : sortedPos(K, i) = p]])

\* the keys of a comparator that subtracts the other way round, (a, b) => key(b) - key(a)
descending(K) == Array([i \in 1..Len(K) |-> 0 - K[i]])

chapterKeys(arr) == Array([i \in 1..Len(arr) |-> getChapterNumber(arr[i].chapter)])

\* a sort that was left out: the array as it came
keepOrder(arr) == arr

\* [...arr].sort((a, b) => getChapterNumber(a.chapter) - getChapterNumber(b.chapter))
sortByChapterAsc(arr) == stableSort(arr, chapterKeys(arr))

\* [...arr].sort((a, b) => getChapterNumber(b.chapter) - getChapterNumber(a.chapter))
sortByChapterDesc(arr) == stableSort(arr, descending(chapterKeys(arr)))

\* String(b) of a boolean
boolString(b) == IF b THEN sTrue ELSE sFalse

randomSeed(f, sq, srt) ==
    join(<<f.quiz, sq, join(f.chapter, <<",">>), join(f.questionType, <<",">>),
           boolString(f.recentOnly), boolString(f.showSavedOnly),
           boolString(f.groupSimilarOptions), srt>>, <<"|">>)

\* Array.prototype.slice(start, end), 0-based, end exclusive
slice(arr, start, end) ==
    SubSeq(arr, start + 1, IF end < Len(arr) THEN end ELSE Len(arr))

Range(xs) == {xs[i] : i \in 1..Len(xs)}

inSeq(xs, v) == \E i \in 1..Len(xs) : xs[i] = v

(***************************************************************************)
(* Bounds of the model                                                     *)
(***************************************************************************)
\* how many bank questions the collection may lack
MaxMissing == 1
\* how many view controls (the six filters, the search box, the sort order, the
\* saved ids) may be away from their initial value at once
MaxChanged == 2
\* how many ids may be saved at once
MaxSaved == 1
\* how many days may pass while the page is open
MaxDays == 1
\* how many exchanges of two entries the exam's random-comparator sort composes
MaxSwaps == 1
\* the longest text normalizeText is called with
MaxTextLen == 3
\* the longest text diceSimilarity is called with
MaxDiceLen == 4
\* the largest bucket orderSimilarQuestions is called with
MaxBucket == 4
\* the longest array seededShuffle is called with
MaxShuffleLen == 5
\* the longest seed seededShuffle is called with
MaxSeedLen == 2
\* the most options of a question getSimilarOptionsMeta is called with
MaxOptions == 3
\* the most entries of an options field extractOptions is called with
MaxEntries == 2
\* the most calls of handleExplainQuestion in flight
MaxRequests == 2
\* the most toasts shown, and the most messages given to console.error
MaxToasts == 2
MaxErrors == 2
\* how many questions of the exam, from its first on, get an answer
MaxAnswered == 2
\* how many records are pasted in at once
MaxBatch == 2
\* how many handlers are held by cards at once
MaxHeld == 2

(***************************************************************************)
(* The question bank the model draws records from, and the values the      *)
(* view controls take                                                      *)
(***************************************************************************)
Question(id, text, options, correct, chapter, type, createdAt) ==
    [id |-> id, questionText |-> text,
     options |-> JArr(Array([i \in 1..Len(options) |-> JStr(options[i])])),
     correctAnswer |-> JStr(correct), chapter |-> chapter, questionType |-> type,
     createdAt |-> createdAt]

sChapter1 == <<"C", "h", "a", "p", "t", "e", "r", " ", "1">>
sChapter2 == <<"C", "h", "a", "p", "t", "e", "r", " ", "2">>
sChapter10 == <<"C", "h", "a", "p", "t", "e", "r", " ", "1", "0">>
sIntro == <<"I", "n", "t", "r", "o">>
sMcq == <<"m", "c", "q">>
sTf == <<"t", "f">>
oAbcdef == <<"a", "b", "c", "d", "e", "f">>
oABCDEF == <<"A", "B", "C", "D", "E", "F">>
oAbcdefg == <<"a", "b", "c", "d", "e", "f", "g">>
oMnopqr == <<"m", "n", "o", "p", "q", "r">>
oUvwxyz == <<"u", "v", "w", "x", "y", "z">>
oUvwxyzz == <<"u", "v", "w", "x", "y", "z", "z">>

\* the day the page is opened; createdAt is a day number, 0 for none
FirstDay == 3 * RECENT_DAYS
Days == FirstDay..(FirstDay + MaxDays)

Q1 == Question("q1", <<"a", "X">>, <<oAbcdef, oABCDEF, oUvwxyz>>, oAbcdef, sChapter2, sMcq,
               FirstDay - 5)
Q2 == Question("q2", <<"b", "x">>, <<oAbcdef, oAbcdefg>>, oAbcdefg, sChapter1, sMcq,
               FirstDay - 7)
Q3 == Question("q3", <<"c">>, <<oAbcdef, oMnopqr>>, oMnopqr, sChapter10, sTf, FirstDay - 8)
Q4 == Question("q4", <<"d", "x">>, <<oMnopqr, oUvwxyz>>, oMnopqr, sIntro, sMcq, FirstDay - 6)
Q5 == Question("q5", <<"e", "x">>, <<oUvwxyz, oUvwxyzz>>, oUvwxyz, sChapter1, sTf,
               FirstDay - RECENT_DAYS)

\* getDocs(query(..., orderBy("createdAt", "desc"))): the stored documents, newest first
byCreatedAtDesc(arr) ==
    stableSort(arr, descending(Array([i \in 1..Len(arr) |-> arr[i].createdAt])))

Bank == byCreatedAtDesc(<<Q1, Q2, Q3, Q4, Q5>>)

\* Q3 after an edit that moved it to another chapter
Q3edited == [Q3 EXCEPT !.chapter = sChapter1]

Records == Range(Bank) \cup {Q3edited}
BankIds == {Bank[i].id : i \in 1..Len(Bank)}

Snapshots ==
    {SelectSeq(Bank, LAMBDA q : q.id \notin gone) :
        gone \in {g \in SUBSET BankIds : Cardinality(g) <= MaxMissing}}

FilterValues ==
    [chapter : {<<>>, <<sChapter1>>},
     questionType : {<<>>, <<sMcq>>},
     showSavedOnly : BOOLEAN,
     quiz : {sAll, sQuiz \o <<"1">>, sQuiz \o <<"2">>},
     recentOnly : BOOLEAN,
     groupSimilarOptions : BOOLEAN]

SearchValues == {<<>>, <<"X">>}
SortValues == {chapter_asc, chapter_desc, random}

\* how many view controls are away from their initial value
changed(f, sq, srt, saved) ==
    Cardinality({k \in DOMAIN f : f[k] # initialFilters[k]})
    + (IF sq # <<>> THEN 1 ELSE 0) + (IF srt # chapter_asc THEN 1 ELSE 0)
    + (IF saved # <<>> THEN 1 ELSE 0)

\* the filter panel changes one control at a time
FilterChanges(f) == {g \in FilterValues : Cardinality({k \in DOMAIN f : f[k] # g[k]}) = 1}

\* the seeds randomSeed takes under sort = random
Seeds == {randomSeed(f, sq, random) : f \in FilterValues, sq \in SearchValues}

(***************************************************************************)
(* app/page.tsx: seededShuffle.  The seed loop's result is tabulated over  *)
(* the model's seeds.  The array given and the copy are kept apart, and    *)
(* the draws are recorded.                                                 *)
(***************************************************************************)
HashTable == Table([seed \in Seeds |-> hashSeed(FnvOffset, seed, 1)])

seedHash(seed) ==
    IF seed \in DOMAIN HashTable THEN HashTable[seed] ELSE hashSeed(FnvOffset, seed, 1)

\* an exchange made on the array that was given as well as on the copy
swapInPlace(mem, i, j) == [arr |-> swap(mem.arr, i, j), copy |-> swap(mem.copy, i, j)]

\* an assignment copy[i] = copy[j] in place of the exchange
overwriteCopy(mem, i, j) == [mem EXCEPT !.copy = [mem.copy EXCEPT ![i] = mem.copy[j]]]

\* [copy[i], copy[j]] = [copy[j], copy[i]] (page.tsx:212)
swapCopy(mem, i, j) == [mem EXCEPT !.copy = swap(mem.copy, i, j)]

\* the Fisher-Yates loop (page.tsx:210-213); positions are 1-based here, so the
\* code's i and j are i - 1 and j - 1, and are recorded as the code has them
RECURSIVE fisherYates(_, _, _, _)
fisherYates(mem, h, i, draws) ==
    IF i <= 1 THEN [arr |-> mem.arr, out |-> mem.copy, draws |-> draws]
    ELSE With(rnd(h), LAMBDA r : With(scaleDraw(r.u, i) + 1, LAMBDA j :
            fisherYates(swapCopy(mem, i, j), r.h, i - 1, Append(draws, <<i - 1, j - 1>>))))

\* one call: the array given as the call leaves it, the array returned, the draws
shuffleRun(arr, seed) ==
    fisherYates([arr |-> arr, copy |-> arr], seedHash(seed), Len(arr), <<>>)

seededShuffle(arr, seed) == shuffleRun(arr, seed).out

(***************************************************************************)
(* app/page.tsx: the derived caches and the ordering functions of Home.    *)
(* A Map built by set() in collection order keeps the last record of an id.*)
(* What the caches hold is tabulated over the model's records.             *)
(***************************************************************************)
MetaTable == Table([q \in Records |-> getSimilarOptionsMeta(q, DEFAULTS)])

\* getSimilarOptionsMeta(q) (page.tsx:132)
similarMeta(q) ==
    IF q \in Records THEN MetaTable[q] ELSE getSimilarOptionsMeta(q, DEFAULTS)

\* extractOptions(q).map((s) => normalizeText(s)).filter(Boolean) (page.tsx:140)
normalizedOptions(q) ==
    With(extractOptions(q), LAMBDA opts :
        NonEmpty([i \in 1..Len(opts) |-> normalizeText(opts[i])]))

OptionsTable == Table([q \in Records |-> normalizedOptions(q)])

hasId(qs, id) == \E i \in 1..Len(qs) : qs[i].id = id

lastWithId(qs, id) ==
    qs[CHOOSE i \in 1..Len(qs) : qs[i].id = id /\ \A j \in (i + 1)..Len(qs) : qs[j].id # id]

\* similarMetaById.get(id)?.maxSimilarity ?? 0
maxSimilarityOf(qs, id) ==
    IF hasId(qs, id) THEN similarMeta(lastWithId(qs, id)).maxSimilarity ELSE FZero

\* !!similarMetaById.get(q.id)?.hasSimilar
isSimilar(qs, q) == hasId(qs, q.id) /\ similarMeta(lastWithId(qs, q.id)).hasSimilar

\* optionsById.get(id) ?? []
\* the entry optionsById holds for the record q
optionsOf(q) == IF q \in Records THEN OptionsTable[q] ELSE normalizedOptions(q)

optionsById(qs, id) == IF ~hasId(qs, id) THEN <<>> ELSE optionsOf(lastWithId(qs, id))

RECURSIVE bestOver(_, _, _, _)
bestOver(s, Y, k, best) ==
    IF k > Len(Y) THEN best
    ELSE bestOver(s, Y, k + 1, FMax(best, diceSimilarity(s, Y[k])))

RECURSIVE sumBest(_, _, _)
sumBest(X, Y, k) ==
    IF k > Len(X) THEN FZero
    ELSE FAdd(bestOver(X[k], Y, 1, FZero), sumBest(X, Y, k + 1))

bestAvg(X, Y) == FDivInt(sumBest(X, Y, 1), Len(X))

\* the average of the best matches of A in B alone
optionsSimilarityOneWay(A, B) ==
    IF Len(A) = 0 \/ Len(B) = 0 THEN FZero
    ELSE bestAvg(A, B)

\* questionSimilarity on the two option lists (page.tsx:150-168)
optionsSimilarity(A, B) ==
    IF Len(A) = 0 \/ Len(B) = 0 THEN FZero
    ELSE FDivInt(FAdd(bestAvg(A, B), bestAvg(B, A)), 2)

OptionLists == {OptionsTable[q] : q \in Records}

SimilarityTable ==
    Table([p \in OptionLists \X OptionLists |-> optionsSimilarity(p[1], p[2])])

\* AB is <<A, B>>
questionSimilarity(qs, a, b) ==
    With(<<optionsById(qs, a.id), optionsById(qs, b.id)>>, LAMBDA AB :
        IF AB \in DOMAIN SimilarityTable THEN SimilarityTable[AB]
        ELSE optionsSimilarity(AB[1], AB[2]))

\* a shuffle of the list on display in place of the array given
sortWithinDisplayed(arr, srt, seed) ==
    IF srt = random THEN seededShuffle(filteredQuestions, seed)
    ELSE IF srt = chapter_desc THEN sortByChapterDesc(arr)
    ELSE arr

sortWithin(arr, srt, seed) ==
    IF srt = random THEN seededShuffle(arr, seed)
    ELSE IF srt = chapter_desc THEN sortByChapterDesc(arr)
    ELSE arr

\* the ids of arr in first-occurrence order: new Set(arr.map((q) => q.id))
RECURSIVE idSet(_, _)
idSet(arr, seen) ==
    IF arr = <<>> THEN <<>>
    ELSE IF Head(arr).id \in seen THEN idSet(Tail(arr), seen)
    ELSE <<Head(arr).id>> \o idSet(Tail(arr), seen \cup {Head(arr).id})

without(ids, id) == SelectSeq(ids, LAMBDA v : v # id)

\* the scan of pickBestStart: the first id of remaining with the greatest
\* maxSimilarity (bestScore starts at -1, so the first id always replaces null)
RECURSIVE scanStart(_, _, _, _, _)
scanStart(qs, remaining, k, bestId, bestScore) ==
    IF k > Len(remaining) THEN bestId
    ELSE With(maxSimilarityOf(qs, remaining[k]), LAMBDA sc :
            IF k = 1 \/ FLess(bestScore, sc)
            THEN scanStart(qs, remaining, k + 1, remaining[k], sc)
            ELSE scanStart(qs, remaining, k + 1, bestId, bestScore))

\* pickBestStart: an id that is falsy (the empty string) falls back to the first
pickBestStart(qs, arr, remaining) ==
    With(scanStart(qs, remaining, 1, "", FZero), LAMBDA bestId :
        IF bestId # "" THEN lastWithId(arr, bestId) ELSE lastWithId(arr, remaining[1]))

\* let bestSim = -1 (page.tsx:239, 257)
FMinusOne == <<-1, 1>>

\* a scan that lets a later candidate of equal similarity take over
RECURSIVE scanNextLastOnTie(_, _, _, _, _, _, _)
scanNextLastOnTie(qs, arr, current, remaining, k, bestNext, bestSim) ==
    IF k > Len(remaining) THEN bestNext
    ELSE With(lastWithId(arr, remaining[k]), LAMBDA cand :
         With(questionSimilarity(qs, current, cand), LAMBDA sim :
            IF FLeq(bestSim, sim)
            THEN scanNextLastOnTie(qs, arr, current, remaining, k + 1, cand, sim)
            ELSE scanNextLastOnTie(qs, arr, current, remaining, k + 1, bestNext, bestSim)))

\* the scan for bestNext (page.tsx:259-266): the first candidate with the
\* greatest similarity to current; bestNext starts as null and bestSim as -1
RECURSIVE scanNext(_, _, _, _, _, _, _)
scanNext(qs, arr, current, remaining, k, bestNext, bestSim) ==
    IF k > Len(remaining) THEN bestNext
    ELSE With(lastWithId(arr, remaining[k]), LAMBDA cand :
         With(questionSimilarity(qs, current, cand), LAMBDA sim :
            IF FLess(bestSim, sim)
            THEN scanNext(qs, arr, current, remaining, k + 1, cand, sim)
            ELSE scanNext(qs, arr, current, remaining, k + 1, bestNext, bestSim)))

\* an inner loop that takes a candidate of similarity 0 for no candidate
RECURSIVE chainFromPositive(_, _, _, _, _)
chainFromPositive(qs, arr, out, remaining, current) ==
    IF remaining = <<>> THEN [out |-> out, remaining |-> remaining, broke |-> FALSE]
    ELSE With(scanNext(qs, arr, current, remaining, 1, NoQuestion, FZero), LAMBDA bestNext :
            IF bestNext = NoQuestion
            THEN [out |-> out, remaining |-> remaining, broke |-> TRUE]
            ELSE chainFromPositive(qs, arr, Append(out, bestNext),
                                   without(remaining, bestNext.id), bestNext))

\* the inner while loop (page.tsx:255-272); broke tells whether it was left
\* through `if (!bestNext) break`
RECURSIVE chainFrom(_, _, _, _, _)
chainFrom(qs, arr, out, remaining, current) ==
    IF remaining = <<>> THEN [out |-> out, remaining |-> remaining, broke |-> FALSE]
    ELSE With(scanNext(qs, arr, current, remaining, 1, NoQuestion, FMinusOne), LAMBDA bestNext :
            IF bestNext = NoQuestion
            THEN [out |-> out, remaining |-> remaining, broke |-> TRUE]
            ELSE chainFrom(qs, arr, Append(out, bestNext), without(remaining, bestNext.id),
                           bestNext))

\* what the outer loop adds to the count of a run: one more start, and the
\* break of this chain
counted(rest, c) ==
    [out |-> rest.out, starts |-> rest.starts + 1, broke |-> c.broke \/ rest.broke]

\* the outer loop without its out.push(current)
RECURSIVE chainsNoStart(_, _, _, _)
chainsNoStart(qs, arr, out, remaining) ==
    IF remaining = <<>> THEN [out |-> out, starts |-> 0, broke |-> FALSE]
    ELSE With(pickBestStart(qs, arr, remaining), LAMBDA current :
         With(chainFrom(qs, arr, out, without(remaining, current.id), current), LAMBDA c :
            counted(chainsNoStart(qs, arr, c.out, c.remaining), c)))

\* the outer while loop (page.tsx:250-273): the array built, the number of
\* calls of pickBestStart and whether an inner loop was left through its break
RECURSIVE chains(_, _, _, _)
chains(qs, arr, out, remaining) ==
    IF remaining = <<>> THEN [out |-> out, starts |-> 0, broke |-> FALSE]
    ELSE With(pickBestStart(qs, arr, remaining), LAMBDA current :
         With(chainFrom(qs, arr, Append(out, current), without(remaining, current.id),
                        current), LAMBDA c :
            counted(chains(qs, arr, c.out, c.remaining), c)))

\* no early return at all
orderSimilarAlways(qs, arr, srt, seed) ==
    With(chains(qs, arr, <<>>, idSet(arr, {})).out, LAMBDA out :
        IF srt = random THEN seededShuffle(out, seed) ELSE out)

\* the early return taken for fewer than two questions only
orderSimilarFromTwo(qs, arr, srt, seed) ==
    IF Len(arr) <= 1 THEN arr
    ELSE With(chains(qs, arr, <<>>, idSet(arr, {})).out, LAMBDA out :
            IF srt = random THEN seededShuffle(out, seed) ELSE out)

orderSimilarQuestions(qs, arr, srt, seed) ==
    IF Len(arr) <= 2 THEN arr
    ELSE With(chains(qs, arr, <<>>, idSet(arr, {})).out, LAMBDA out :
            IF srt = random THEN seededShuffle(out, seed) ELSE out)

(***************************************************************************)
(* app/page.tsx: the filter effect (page.tsx:281-370)                      *)
(***************************************************************************)
\* quiz slicing (page.tsx:291-317)
\* <<startIndex, endIndex>> for a quiz number (page.tsx:293-315)
quizRange(quizNumber, len) ==
    IF quizNumber.nan THEN <<0, len>>
    ELSE CASE quizNumber.n = 1 -> <<0, 115>>
           [] quizNumber.n = 2 -> <<115, 230>>
           [] quizNumber.n = 3 -> <<230, 345>>
           [] quizNumber.n = 4 -> <<345, 460>>
           [] quizNumber.n = 5 -> <<460, 575>>
           [] quizNumber.n = 6 -> <<575, len>>
           [] OTHER -> <<0, len>>

quizSlice(chapterSorted, quiz) ==
    IF quiz = sAll THEN chapterSorted
    ELSE With(quizRange(parseInt(removeFirst(quiz, sQuiz)), Len(chapterSorted)), LAMBDA r :
            slice(chapterSorted, r[1], r[2]))

\* getCreatedAtDate(q.createdAt) and d >= cutoff; a createdAt of 0 is falsy: no date
isRecent(q, now) == q.createdAt # 0 /\ q.createdAt >= now - RECENT_DAYS

\* the filters applied after quiz slicing (page.tsx:319-342)
passes(q, f, sq, saved, now) ==
    /\ f.recentOnly => isRecent(q, now)
    /\ sq # <<>> => includes(toLowerCase(q.questionText), toLowerCase(sq))
    /\ f.showSavedOnly => inSeq(saved, q.id)
    /\ Len(f.chapter) > 0 => inSeq(f.chapter, q.chapter)
    /\ Len(f.questionType) > 0 => inSeq(f.questionType, q.questionType)

\* the list and the similar bucket one run of the effect computes
\* temp after the quiz slice and the five filters
filtered(qs, f, sq, saved, now) ==
    SelectSeq(quizSlice(sortByChapterAsc(qs), f.quiz), LAMBDA q : passes(q, f, sq, saved, now))

\* the grouping branch (page.tsx:344-356)
grouped(qs, similarBkt, otherBucket, srt, seed) ==
    [list |-> orderSimilarQuestions(qs, similarBkt, srt, seed)
                 \o sortWithin(otherBucket, srt, seed),
     bucket |-> similarBkt]

\* the list and the similar bucket one run of the effect computes
filterEffect(qs, f, sq, saved, srt, now) ==
    With(filtered(qs, f, sq, saved, now), LAMBDA temp :
        IF f.groupSimilarOptions
        THEN grouped(qs, SelectSeq(temp, LAMBDA q : isSimilar(qs, q)),
                     SelectSeq(temp, LAMBDA q : ~isSimilar(qs, q)), srt, randomSeed(f, sq, srt))
        ELSE [list |-> sortWithin(temp, srt, randomSeed(f, sq, srt)), bucket |-> <<>>])

NoAnswers == <<>>

\* userAnswers[id]: undefined for an id without a recorded answer
answerOf(answers, id) == IF id \in DOMAIN answers THEN answers[id] ELSE JUndef

\* the strings of a string[]
textsOf(a) == Array([i \in 1..Len(a.v) |-> a.v[i].v])

RECURSIVE insertSorted(_, _)
insertSorted(sorted, x) ==
    IF sorted = <<>> THEN <<x>>
    ELSE IF StrLeq(Head(sorted), x) THEN <<Head(sorted)>> \o insertSorted(Tail(sorted), x)
    ELSE <<x>> \o sorted

\* [...xs].sort() of strings (page.tsx:413-414)
RECURSIVE sortStrings(_)
sortStrings(xs) ==
    IF xs = <<>> THEN <<>>
    ELSE insertSorted(sortStrings(SubSeq(xs, 1, Len(xs) - 1)), xs[Len(xs)])

\* a comparison of the selections as they were made, without sorting them
isCorrectInOrder(q, userAnswer) ==
    IF q.correctAnswer.t = "array"
    THEN /\ userAnswer.t = "array"
         /\ textsOf(userAnswer) = textsOf(q.correctAnswer)
    ELSE userAnswer.t = "string" /\ userAnswer.v = q.correctAnswer.v

\* the test under which submitExam counts a question (page.tsx:411-421)
isCorrect(q, userAnswer) ==
    IF q.correctAnswer.t = "array"
    THEN /\ userAnswer.t = "array"
         /\ Len(userAnswer.v) = Len(q.correctAnswer.v)
         /\ sortStrings(textsOf(userAnswer)) = sortStrings(textsOf(q.correctAnswer))
    ELSE userAnswer.t = "string" /\ userAnswer.v = q.correctAnswer.v

\* the forEach of submitExam (page.tsx:406-422) from the k-th question on
RECURSIVE scoreFrom(_, _, _)
scoreFrom(list, answers, k) ==
    IF k > Len(list) THEN 0
    ELSE (IF /\ ~Falsy(answerOf(answers, list[k].id))
             /\ isCorrect(list[k], answerOf(answers, list[k].id))
          THEN 1 ELSE 0) + scoreFrom(list, answers, k + 1)

\* the sequence without its i-th entry
removeAt(s, i) == SubSeq(s, 1, i - 1) \o SubSeq(s, i + 1, Len(s))

(***************************************************************************)
(* Home: state after the first render, and the handlers.  Every handler    *)
(* that changes a dependency of the filter effect is followed by the       *)
(* effect's run in the same step.                                          *)
(***************************************************************************)
HomeInit ==
    /\ questions = <<>>
    /\ isLoading = TRUE
    /\ filteredQuestions = <<>>
    /\ searchQuery = <<>>
    /\ filters = initialFilters
    /\ sort = chapter_asc
    /\ showAllAnswers = FALSE
    /\ userAnswers = NoAnswers
    /\ isExamMode = FALSE
    /\ isExamFinished = FALSE
    /\ examScore = 0
    /\ savedQuestionIds = <<>>
    /\ clock = FirstDay
    /\ similarBucket = <<>>

\* the effect without its return in exam mode
RunFilterEffectInExamToo ==
    \E now \in {d \in Days : d >= clock /\ (~filters'.recentOnly => d = clock)} :
    \E r \in {filterEffect(questions', filters', searchQuery', savedQuestionIds',
                           sort', now)} :
       /\ clock' = now
       /\ filteredQuestions' = r.list
       /\ similarBucket' = r.bucket
       /\ userAnswers' = NoAnswers

\* the effect (page.tsx:281-370) on the state the handler leaves; Date.now()
\* is read only under recentOnly and never runs backwards
RunFilterEffect ==
    IF isExamMode'
    THEN UNCHANGED <<filteredQuestions, userAnswers, similarBucket, clock>>
    ELSE \E now \in {d \in Days : d >= clock /\ (~filters'.recentOnly => d = clock)} :
         \E r \in {filterEffect(questions', filters', searchQuery', savedQuestionIds',
                                sort', now)} :
            /\ clock' = now
            /\ filteredQuestions' = r.list
            /\ similarBucket' = r.bucket
            /\ userAnswers' = NoAnswers

FetchQuestionsSucceeded(data) ==
    /\ isLoading
    /\ questions' = data
    /\ isLoading' = FALSE
    /\ UNCHANGED <<searchQuery, filters, sort, showAllAnswers, isExamMode, isExamFinished,
                   examScore, savedQuestionIds>>
    /\ RunFilterEffect

\* the catch of fetchQuestions: console.error and nothing else
FetchQuestionsFailed ==
    /\ isLoading
    /\ consoleErrors' = Append(consoleErrors, "Error fetching questions: ")
    /\ isLoading' = FALSE
    /\ UNCHANGED <<questions, filteredQuestions, searchQuery, filters, sort, showAllAnswers,
                   userAnswers, isExamMode, isExamFinished, examScore, savedQuestionIds,
                   clock, similarBucket>>
    /\ UNCHANGED <<panelVars, exportVars, toasts, otherVars>>

\* header.tsx:166: the search box is disabled in exam mode
SetSearchQuery(sq) ==
    /\ ~isExamMode
    /\ sq # searchQuery
    /\ changed(filters, sq, sort, savedQuestionIds) <= MaxChanged
    /\ searchQuery' = sq
    /\ UNCHANGED <<questions, isLoading, filters, sort, showAllAnswers, isExamMode,
                   isExamFinished, examScore, savedQuestionIds>>
    /\ RunFilterEffect

\* the filter sheet is disabled in exam mode
SetFilters(f) ==
    /\ ~isExamMode
    /\ changed(f, searchQuery, sort, savedQuestionIds) <= MaxChanged
    /\ filters' = f
    /\ UNCHANGED <<questions, isLoading, searchQuery, sort, showAllAnswers, isExamMode,
                   isExamFinished, examScore, savedQuestionIds>>
    /\ RunFilterEffect

SetSort(srt) ==
    /\ ~isExamMode
    /\ srt # sort
    /\ changed(filters, searchQuery, srt, savedQuestionIds) <= MaxChanged
    /\ sort' = srt
    /\ UNCHANGED <<questions, isLoading, searchQuery, filters, showAllAnswers, isExamMode,
                   isExamFinished, examScore, savedQuestionIds>>
    /\ RunFilterEffect

clearAllFilters ==
    /\ ~isExamMode
    /\ filters' = initialFilters
    /\ sort' = chapter_asc
    /\ UNCHANGED <<questions, isLoading, searchQuery, showAllAnswers, isExamMode,
                   isExamFinished, examScore, savedQuestionIds>>
    /\ RunFilterEffect

toggleSaveQuestion(questionId) ==
    /\ savedQuestionIds' =
          IF inSeq(savedQuestionIds, questionId)
          THEN SelectSeq(savedQuestionIds, LAMBDA id : id # questionId)
          ELSE Append(savedQuestionIds, questionId)
    /\ UNCHANGED <<questions, isLoading, searchQuery, filters, sort, showAllAnswers,
                   isExamMode, isExamFinished, examScore>>
    /\ RunFilterEffect

\* [...questions].sort(() => 0.5 - Math.random()): the collection with up to k
\* exchanges of two entries
RECURSIVE Shufflings(_, _)
Shufflings(arr, k) ==
    IF k = 0 THEN {arr}
    ELSE UNION {{a} \cup {swap(a, i, j) : i \in 1..Len(arr), j \in 1..Len(arr)} :
                   a \in Shufflings(arr, k - 1)}

\* an exam of the whole shuffled collection
startExamUnsliced(shuffled) ==
    /\ ~isExamMode
    /\ filteredQuestions' = shuffled
    /\ isExamMode' = TRUE
    /\ isExamFinished' = FALSE
    /\ userAnswers' = NoAnswers
    /\ examScore' = 0
    /\ showAllAnswers' = FALSE
    /\ searchQuery' = <<>>
    /\ filters' = initialFilters
    /\ sort' = chapter_asc
    /\ UNCHANGED <<questions, isLoading, savedQuestionIds, clock, similarBucket>>

startExam(shuffled) ==
    /\ ~isExamMode
    /\ filteredQuestions' = slice(shuffled, 0, EXAM_QUESTION_COUNT)
    /\ isExamMode' = TRUE
    /\ isExamFinished' = FALSE
    /\ userAnswers' = NoAnswers
    /\ examScore' = 0
    /\ showAllAnswers' = FALSE
    /\ searchQuery' = <<>>
    /\ filters' = initialFilters
    /\ sort' = chapter_asc
    /\ UNCHANGED <<questions, isLoading, savedQuestionIds, clock, similarBucket>>

\* a reset that also hides the answers again
resetViewHidingAnswers ==
    /\ isExamMode
    /\ isExamMode' = FALSE
    /\ isExamFinished' = FALSE
    /\ examScore' = 0
    /\ showAllAnswers' = FALSE
    /\ UNCHANGED <<questions, isLoading, searchQuery, filters, sort, savedQuestionIds>>
    /\ RunFilterEffect

\* header.tsx:200: the reset button exists in exam mode only
resetView ==
    /\ isExamMode
    /\ isExamMode' = FALSE
    /\ isExamFinished' = FALSE
    /\ examScore' = 0
    /\ UNCHANGED <<questions, isLoading, searchQuery, filters, sort, showAllAnswers,
                   savedQuestionIds>>
    /\ RunFilterEffect

handleAnswerChange(questionId, answer) ==
    /\ userAnswers' = (questionId :> answer) @@ userAnswers
    /\ UNCHANGED <<questions, isLoading, filteredQuestions, searchQuery, filters, sort,
                   showAllAnswers, isExamMode, isExamFinished, examScore, savedQuestionIds,
                   clock, similarBucket>>

submitExam ==
    /\ examScore' = scoreFrom(filteredQuestions, userAnswers, 1)
    /\ isExamFinished' = TRUE
    /\ showAllAnswers' = TRUE
    /\ UNCHANGED <<questions, isLoading, filteredQuestions, searchQuery, filters, sort,
                   userAnswers, isExamMode, savedQuestionIds, clock, similarBucket>>

\* combined.findIndex((q) => q.id === id), 1-based, for an id that is there
findIndex(combined, id) ==
    CHOOSE i \in 1..Len(combined) :
        combined[i].id = id /\ \A j \in 1..(i - 1) : combined[j].id # id

\* a forEach that pushes every new question
addAllPushed(combined, newQuestions) == combined \o newQuestions

\* the forEach of handleQuestionsAdded: replace the record of a known id, else append
RECURSIVE addAll(_, _)
addAll(combined, newQuestions) ==
    IF newQuestions = <<>> THEN combined
    ELSE IF hasId(combined, Head(newQuestions).id)
         THEN addAll([combined EXCEPT ![findIndex(combined, Head(newQuestions).id)] =
                                          Head(newQuestions)],
                     Tail(newQuestions))
         ELSE addAll(Append(combined, Head(newQuestions)), Tail(newQuestions))

\* what a handler passes to setQuestions, from the questions its closure holds
\* (page.tsx:437-449, 453, 457)
added(held, newQuestions) == byCreatedAtDesc(addAll(held, newQuestions))

deleted(held, questionId) == SelectSeq(held, LAMBDA q : q.id # questionId)

updated(held, updatedQuestion) ==
    Array([i \in 1..Len(held) |->
              IF held[i].id = updatedQuestion.id THEN updatedQuestion ELSE held[i]])

\* header.tsx:269: questions are pasted in only outside exam mode
handleQuestionsAdded(newQuestions) ==
    /\ ~isExamMode
    /\ questions' = added(questions, newQuestions)
    /\ UNCHANGED <<isLoading, searchQuery, filters, sort, showAllAnswers, isExamMode,
                   isExamFinished, examScore, savedQuestionIds>>
    /\ RunFilterEffect

handleQuestionDeleted(questionId) ==
    /\ questions' = deleted(questions, questionId)
    /\ UNCHANGED <<isLoading, searchQuery, filters, sort, showAllAnswers, isExamMode,
                   isExamFinished, examScore, savedQuestionIds>>
    /\ RunFilterEffect

handleQuestionUpdated(updatedQuestion) ==
    /\ questions' = updated(questions, updatedQuestion)
    /\ UNCHANGED <<isLoading, searchQuery, filters, sort, showAllAnswers, isExamMode,
                   isExamFinished, examScore, savedQuestionIds>>
    /\ RunFilterEffect

\* what the edit dialog of a displayed question submits: the record as it is, or
\* Q3 moved between its two chapters
Edits(q) == {q} \cup (IF q.id = Q3.id THEN {Q3, Q3edited} ELSE {})

\* a render hands the handlers to the list (page.tsx:543-558); a card keeps
\* the one it was given until its own work (a confirmation, a write to the
\* store) is done
HoldHandler(h) ==
    /\ heldHandlers' = Append(heldHandlers, [h EXCEPT !.questions = questions])
    /\ UNCHANGED <<homeVars, fnVars, panelVars, exportVars, toasts, consoleErrors,
                   exportPageVars>>

\* the questions the i-th held handler passes to setQuestions
resultOf(h) ==
    IF h.fn = "handleQuestionsAdded" THEN added(h.questions, h.arg)
    ELSE IF h.fn = "handleQuestionDeleted" THEN deleted(h.questions, h.arg)
    ELSE updated(h.questions, h.arg)

\* a held handler is called (page.tsx:436-458): call keeps what was called
InvokeHeld(i) ==
    /\ ~isExamMode
    /\ questions' = resultOf(heldHandlers[i])
    /\ heldHandlers' = removeAt(heldHandlers, i)
    /\ call' = heldHandlers[i]
    /\ UNCHANGED <<isLoading, searchQuery, filters, sort, showAllAnswers, isExamMode,
                   isExamFinished, examScore, savedQuestionIds>>
    /\ RunFilterEffect
    /\ UNCHANGED <<ret, panelVars, exportVars, toasts, consoleErrors, exportPageVars>>

NoCall == [fn |-> "none"]
NoRet == [done |-> FALSE]

NoExplanation == <<>>
NothingStored == <<>>

\* JSON.stringify(v): a text that JSON.parse turns into v again
JSONstringify(v) == [json |-> TRUE, value |-> v]

\* texts that are not JSON
NotJSON == {[json |-> FALSE, value |-> <<"{", "o", "o", "p", "s">>],
            [json |-> FALSE, value |-> <<"u", "n", "d", "e", "f", "i", "n", "e", "d">>]}

\* the panel and the header as they are mounted, and the lock as the context
\* gives it
UiInit(locked) ==
    /\ selectedQuestionForExplanation = NoQuestion
    /\ isExplanationPanelOpen = FALSE
    /\ explanation = NoExplanation
    /\ explanationLoading = FALSE
    /\ explainRequests = <<>>
    /\ level = "short"
    /\ language = "en"
    /\ isLocked = locked
    /\ isExportDialogOpen = FALSE
    /\ sessionStored = NothingStored
    /\ route = "/"
    /\ toasts = <<>>
    /\ consoleErrors = <<>>
    /\ heldHandlers = <<>>
    /\ exportPageQuestions = <<>>
    /\ exportPageLoading = TRUE
    /\ exportTimer = "none"

Init == HomeInit /\ UiInit(TRUE) /\ call = NoCall /\ ret = NoRet

\* the cards that offer save, delete and edit are those of the displayed list
Next ==
    \/ \E data \in Snapshots : FetchQuestionsSucceeded(data) /\ UNCHANGED <<fnVars, uiVars>>
    \/ FetchQuestionsFailed /\ UNCHANGED call /\ UNCHANGED ret
    \/ \E sq \in SearchValues : SetSearchQuery(sq) /\ UNCHANGED <<fnVars, uiVars>>
    \/ \E f \in FilterChanges(filters) : SetFilters(f) /\ UNCHANGED <<fnVars, uiVars>>
    \/ \E srt \in SortValues : SetSort(srt) /\ UNCHANGED <<fnVars, uiVars>>
    \/ clearAllFilters /\ UNCHANGED <<fnVars, uiVars>>
    \/ \E q \in Range(filteredQuestions) :
          /\ inSeq(savedQuestionIds, q.id) \/ Len(savedQuestionIds) < MaxSaved
          /\ changed(filters, searchQuery, sort, <<q.id>>) <= MaxChanged
          /\ toggleSaveQuestion(q.id) /\ UNCHANGED <<fnVars, uiVars>>
    \/ \E shuffled \in Shufflings(questions, MaxSwaps) :
          startExam(shuffled) /\ UNCHANGED <<fnVars, uiVars>>
    \/ resetView /\ UNCHANGED <<fnVars, uiVars>>
    \/ \E q \in Range(Bank) :
          /\ Len(addAll(questions, <<q>>)) >= Len(Bank) - MaxMissing
          /\ handleQuestionsAdded(<<q>>) /\ UNCHANGED <<fnVars, uiVars>>
    \/ \E q \in Range(filteredQuestions) :
          /\ Len(questions) > Len(Bank) - MaxMissing
          /\ handleQuestionDeleted(q.id) /\ UNCHANGED <<fnVars, uiVars>>
    \/ \E q \in Range(filteredQuestions) : \E e \in Edits(q) :
          handleQuestionUpdated(e) /\ UNCHANGED <<fnVars, uiVars>>

Spec == Init /\ [][Next]_vars

(***************************************************************************)
(* The collection: the three handlers that change it, each called at once  *)
(* or after other handlers of the same render.                             *)
(***************************************************************************)
BatchRecords == {Q3, Q3edited}

\* what the paste dialog hands over: up to MaxBatch records, ids repeated or not
Batches ==
    UNION {{Array(f) : f \in [1..k -> BatchRecords]} : k \in 1..MaxBatch}

\* the calls the header and the first cards of the list can make on the
\* collection of this render
HandlerCalls ==
    {[fn |-> "handleQuestionsAdded", arg |-> b, questions |-> <<>>] : b \in Batches}
      \cup {[fn |-> "handleQuestionDeleted", arg |-> q.id, questions |-> <<>>] :
               q \in Range(slice(filteredQuestions, 0, MaxHeld))}
      \cup {[fn |-> "handleQuestionUpdated", arg |-> e, questions |-> <<>>] :
               e \in UNION {Edits(q) \ {q} : q \in Range(filteredQuestions)}}

\* the handlers held are those of one render, a render of a collection as
\* large as the bank
OfThisRender == \A i \in 1..Len(heldHandlers) : heldHandlers[i].questions = questions

NextBank ==
    \/ \E data \in Snapshots : FetchQuestionsSucceeded(data) /\ UNCHANGED <<fnVars, uiVars>>
    \/ \E h \in HandlerCalls :
          /\ Len(heldHandlers) < MaxHeld /\ OfThisRender
          /\ Len(questions) = Len(Bank)
          /\ HoldHandler(h)
    \/ \E i \in 1..Len(heldHandlers) : InvokeHeld(i)

SpecBank == Init /\ [][NextBank]_vars

(***************************************************************************)
(* The exam: the page with the search box and the sort order as its view   *)
(* controls, and with the answers given and handed in while an exam runs.  *)
(***************************************************************************)
\* what a card hands to onAnswerChange: under a single correct answer one of
\* the question's options, under several a selection of up to two options in
\* the order they were ticked; and one answer of the other kind each
AnswersTo(q) ==
    IF q.correctAnswer.t = "array"
    THEN {JArr(s) : s \in {<<>>} \cup {<<o>> : o \in Range(q.options.v)}
                           \cup {<<o, p>> : o \in Range(q.options.v), p \in Range(q.options.v)}}
            \cup {q.options.v[1]}
    ELSE Range(q.options.v) \cup {JArr(<<q.correctAnswer>>)}

\* the filter sheet with its question type changed
TypeChanges(f) == {g \in FilterChanges(f) : g.questionType # f.questionType}

\* a question with two correct answers out of three options
Multi(id) ==
    [Question(id, <<"n">>, <<oAbcdef, oMnopqr, oUvwxyz>>, <<>>, sChapter1, sMcq,
              FirstDay - 2 * RECENT_DAYS)
        EXCEPT !.correctAnswer = JArr(<<JStr(oMnopqr), JStr(oAbcdef)>>)]

\* a collection of one question more than an exam takes, its second question
\* with two correct answers
LargeBank ==
    Array([i \in 1..(EXAM_QUESTION_COUNT + 1) |->
              IF i = 2 THEN Multi("n" \o ToString(i))
              ELSE Question("n" \o ToString(i), <<"n">>, <<oAbcdef, oMnopqr>>, oAbcdef,
                            sChapter1, sMcq, FirstDay - 2 * RECENT_DAYS)])

\* the large collection is fetched under the initial view and examined, its
\* exam is left before the first answer or not at all, and otherwise it is
\* left alone
IsBankSized == Len(questions) <= Len(Bank)

\* the view controls are touched over a collection as large as the bank
IsWholeBank == Len(questions) = Len(Bank)

\* the cards are touched while an exam runs, and one card is saved at a time
InExam == IsBankSized /\ isExamMode

Fetched ==
    Snapshots \cup (IF changed(filters, searchQuery, sort, savedQuestionIds) = 0
                    THEN {LargeBank} ELSE {})

\* the orders the exam's shuffle is given: the order as it is and the one with
\* the first and the last question exchanged
ExamShufflings(qs) == IF qs = <<>> THEN {qs} ELSE {qs, swap(qs, 1, Len(qs))}

NextExam ==
    \/ isLoading /\ \E data \in Fetched :
          FetchQuestionsSucceeded(data) /\ UNCHANGED <<fnVars, uiVars>>
    \/ \E sq \in SearchValues :
          IsWholeBank /\ SetSearchQuery(sq) /\ UNCHANGED <<fnVars, uiVars>>
    \/ \E f \in TypeChanges(filters) :
          IsWholeBank /\ SetFilters(f) /\ UNCHANGED <<fnVars, uiVars>>
    \/ \E srt \in SortValues : IsWholeBank /\ SetSort(srt) /\ UNCHANGED <<fnVars, uiVars>>
    \/ \E q \in Range(slice(filteredQuestions, 0, 1)) :
          /\ InExam
          /\ inSeq(savedQuestionIds, q.id) \/ savedQuestionIds = <<>>
          /\ toggleSaveQuestion(q.id) /\ UNCHANGED <<fnVars, uiVars>>
    \/ \E shuffled \in ExamShufflings(questions) :
          startExam(shuffled) /\ UNCHANGED <<fnVars, uiVars>>
    \/ \E q \in Range(slice(filteredQuestions, 0, MaxAnswered)) : \E answer \in AnswersTo(q) :
          /\ isExamMode /\ ~isExamFinished
          /\ handleAnswerChange(q.id, answer) /\ UNCHANGED <<fnVars, uiVars>>
    \/ isExamMode /\ ~isExamFinished /\ submitExam /\ UNCHANGED <<fnVars, uiVars>>
    \/ /\ IsBankSized \/ userAnswers = NoAnswers
       /\ resetView /\ UNCHANGED <<fnVars, uiVars>>
    \/ \E q \in Range(Bank) :
          /\ IsBankSized
          /\ Len(addAll(questions, <<q>>)) >= Len(Bank) - MaxMissing
          /\ handleQuestionsAdded(<<q>>) /\ UNCHANGED <<fnVars, uiVars>>
    \/ \E q \in Range(slice(filteredQuestions, 0, 1)) :
          /\ InExam
          /\ Len(questions) > Len(Bank) - MaxMissing
          /\ handleQuestionDeleted(q.id) /\ UNCHANGED <<fnVars, uiVars>>
    \/ \E q \in Range(filteredQuestions) : \E e \in Edits(q) :
          InExam /\ handleQuestionUpdated(e) /\ UNCHANGED <<fnVars, uiVars>>

SpecExam == Init /\ [][NextExam]_vars

(***************************************************************************)
(* The pure functions, each called once on arguments drawn from bounded    *)
(* sets: call holds the function's name and arguments, ret what it         *)
(* returned.                                                               *)
(***************************************************************************)
Strings(chars, n) == UNION {{Array(f) : f \in [1..k -> chars]} : k \in 0..n}

TextChars == {"a", "A", " ", "!"}
DiceChars == {"a", "b"}

NormalizeCalls == {[fn |-> "normalizeText", s |-> s] : s \in Strings(TextChars, MaxTextLen)}

\* the second text is at most one character shorter than the longest first
DiceCalls ==
    {[fn |-> "diceSimilarity", a |-> a, b |-> b] :
        a \in Strings(DiceChars \cup {" "}, MaxDiceLen),
        b \in Strings(DiceChars \cup {" "}, MaxDiceLen - 1)}

\* the buckets: sequences of bank questions with pairwise distinct ids
Buckets ==
    UNION {{Array(f) : f \in {g \in [1..k -> Range(Bank)] :
                                \A i, j \in 1..k : g[i].id = g[j].id => i = j}} :
           k \in 0..MaxBucket}

OrderCalls ==
    {[fn |-> "orderSimilarQuestions", arr |-> arr, sort |-> srt] :
        arr \in Buckets, srt \in SortValues}

GroupedFilters == [initialFilters EXCEPT !.groupSimilarOptions = TRUE]

ShuffleCalls ==
    {[fn |-> "seededShuffle", arr |-> Array([i \in 1..n |-> i]), seed |-> seed] :
        n \in 0..MaxShuffleLen,
        seed \in Strings(DiceChars, MaxSeedLen) \cup {randomSeed(initialFilters, <<>>, random)}}

\* option texts: a lone a-d letter, one-letter texts, texts of minLen and
\* more, and two texts of more than 10 characters, one inside the other
oLong == <<"a", "b", "c", "d", "e", "f", "g", "h", "i", "j", "k">>
oLonger == oLong \o <<" ">> \o oUvwxyz
OptionTexts ==
    {<<"a">>, <<"e">>, <<"E">>, oAbcdef, oABCDEF, oUvwxyz, oLong, oLonger}

\* questions that carry nothing but an options field
WithOptions(raw) == [options |-> raw]

TextLists == UNION {{Array(f) : f \in [1..k -> OptionTexts]} : k \in 0..MaxOptions}

\* options fields that are missing, null or no list of options
MalformedQuestions ==
    {<<>>, WithOptions(JNull), WithOptions(JUndef), WithOptions(JNum(5)),
     WithOptions(JBool(TRUE)), WithOptions(JStr(oAbcdef)),
     WithOptions(JArr(<<JNull, JNum(7), JStr(<<" ">>)>>)),
     WithOptions(JArr(<<JStr(oAbcdef), JObj(<<>>)>>)),
     WithOptions(JObj(<<<<"a", JStr(oAbcdef)>>>>))}

MetaQuestions ==
    {WithOptions(JArr(Array([i \in 1..Len(l) |-> JStr(l[i])]))) : l \in TextLists}
        \cup MalformedQuestions

Thresholds == {FZero, Frac(1, 2)}
MinLens == {1, 7}

\* the cfg argument: absent, or some of threshold and minLen
Configs ==
    {<<>>} \cup {[threshold |-> t] : t \in Thresholds} \cup {[minLen |-> n] : n \in MinLens}
           \cup {[threshold |-> FOne, minLen |-> 1]}

MetaCalls ==
    {[fn |-> "getSimilarOptionsMeta", q |-> q, cfg |-> cfg] :
        q \in MetaQuestions, cfg \in Configs}

\* entries of a raw options field: strings, objects that carry text, label or
\* value, and values that are neither
Entries ==
    {JStr(<<"X">>), JStr(<<" ", "Y", " ">>), JStr(<<" ">>),
     JObj(<<<<"text", JStr(<<"P">>)>>>>), JObj(<<<<"label", JStr(<<"L">>)>>>>),
     JObj(<<<<"value", JStr(<<"V">>)>>>>),
     JObj(<<<<"text", JNull>>, <<"label", JStr(<<"L">>)>>, <<"value", JStr(<<"V">>)>>>>),
     JObj(<<>>), JNum(5), JNull}

EntryLists == UNION {{Array(f) : f \in [1..k -> Entries]} : k \in 0..MaxEntries}

Keys == <<"a", "b", "c", "d">>

\* the mapping { a: v1, b: v2, ... }
MappingOf(l) == JObj(Array([i \in 1..Len(l) |-> <<Keys[i], l[i]>>]))

FieldNames ==
    <<"options", "choices", "answerOptions", "answers", "answersList", "optionsText">>

\* a question that carries raw under the i-th recognised name
UnderField(i, raw) == [n \in {FieldNames[i]} |-> raw]

SampleList == <<JObj(<<<<"text", JStr(<<"P">>)>>>>), JStr(<<"X">>)>>

ExtractQuestions ==
    {WithOptions(JArr(l)) : l \in EntryLists}
        \cup {WithOptions(MappingOf(l)) : l \in EntryLists}
        \cup {UnderField(i, raw) : i \in 1..Len(FieldNames),
                                   raw \in {JArr(SampleList), MappingOf(SampleList)}}
        \cup {[options |-> first, optionsText |-> JArr(SampleList)] :
                 first \in {JNull, JUndef, JArr(<<>>), JStr(<<>>), JNum(0)}}
        \cup {[answers |-> JArr(<<JStr(<<"X">>)>>), choices |-> MappingOf(SampleList)]}
        \cup MalformedQuestions

ExtractCalls == {[fn |-> "extractOptions", q |-> q] : q \in ExtractQuestions}

\* a question without options
Q6 == Question("q6", <<"f">>, <<>>, <<>>, sChapter1, sMcq, FirstDay - 9)

\* the collections the caches are built from: the bank without some records,
\* and the bank with the question that has no options
SimCollections == Snapshots \cup {Append(Bank, Q6)}

SimCalls ==
    {[fn |-> "questionSimilarity", qs |-> qs, a |-> a, b |-> b] :
        qs \in SimCollections, a \in Range(Bank) \cup {Q6}, b \in Range(Bank) \cup {Q6}}

InitFn ==
    /\ HomeInit
    /\ UiInit(TRUE)
    /\ \/ call \in NormalizeCalls
       \/ call \in DiceCalls
       \/ call \in OrderCalls
       \/ call \in ShuffleCalls
       \/ call \in MetaCalls
       \/ call \in ExtractCalls
       \/ call \in SimCalls
    /\ ret = NoRet

ApplyNormalizeText ==
    /\ call.fn = "normalizeText" /\ ~ret.done
    /\ ret' = [done |-> TRUE, value |-> normalizeText(call.s),
               again |-> normalizeText(normalizeText(call.s))]
    /\ UNCHANGED <<homeVars, uiVars, call>>

ApplyDiceSimilarity ==
    /\ call.fn = "diceSimilarity" /\ ~ret.done
    /\ ret' = [done |-> TRUE, value |-> diceSimilarity(call.a, call.b)]
    /\ UNCHANGED <<homeVars, uiVars, call>>

\* orderSimilarQuestions under the caches of the whole bank and the seed of the
\* grouped view in the call's sort mode
ApplyOrderSimilarQuestions ==
    /\ call.fn = "orderSimilarQuestions" /\ ~ret.done
    /\ \E run \in {IF Len(call.arr) <= 2 THEN [starts |-> 0, broke |-> FALSE]
                    ELSE chains(Bank, call.arr, <<>>, idSet(call.arr, {}))} :
          ret' = [done |-> TRUE,
                  value |-> orderSimilarQuestions(Bank, call.arr, call.sort,
                                                  randomSeed(GroupedFilters, <<>>, call.sort)),
                  starts |-> run.starts, broke |-> run.broke]
    /\ UNCHANGED <<homeVars, uiVars, call>>

ApplySeededShuffle ==
    /\ call.fn = "seededShuffle" /\ ~ret.done
    /\ \E r \in {shuffleRun(call.arr, call.seed)} :
          ret' = [done |-> TRUE, arr |-> r.arr, value |-> r.out, draws |-> r.draws]
    /\ UNCHANGED <<homeVars, uiVars, call>>

ApplyGetSimilarOptionsMeta ==
    /\ call.fn = "getSimilarOptionsMeta" /\ ~ret.done
    /\ ret' = [done |-> TRUE, value |-> getSimilarOptionsMeta(call.q, call.cfg)]
    /\ UNCHANGED <<homeVars, uiVars, call>>

ApplyExtractOptions ==
    /\ call.fn = "extractOptions" /\ ~ret.done
    /\ ret' = [done |-> TRUE, value |-> extractOptions(call.q)]
    /\ UNCHANGED <<homeVars, uiVars, call>>

\* questionSimilarity under the optionsById of the collection call.qs
ApplyQuestionSimilarity ==
    /\ call.fn = "questionSimilarity" /\ ~ret.done
    /\ ret' = [done |-> TRUE, value |-> questionSimilarity(call.qs, call.a, call.b)]
    /\ UNCHANGED <<homeVars, uiVars, call>>

NextFn ==
    \/ ApplyNormalizeText
    \/ ApplyDiceSimilarity
    \/ ApplyOrderSimilarQuestions
    \/ ApplySeededShuffle
    \/ ApplyGetSimilarOptionsMeta
    \/ ApplyExtractOptions
    \/ ApplyQuestionSimilarity

SpecFn == InitFn /\ [][NextFn]_vars

(***************************************************************************)
(* The explanation panel (explanation-panel.tsx), the export button of the *)
(* header (header.tsx) and the fetch of the page, with the collaborators   *)
(* that can fail: the data store, the AI service and session storage.      *)
(***************************************************************************)
\* question.language; a record that does not say is in English
languageOf(q) == IF "language" \in DOMAIN q THEN q.language ELSE "en"

\* the call of handleExplainQuestion that fetchExplanation makes
\* (explanation-panel.tsx:87-94)
Request(q, lv, lang) == [questionId |-> q.id, level |-> lv, language |-> lang]

\* handleExplainClick (page.tsx:378-381) and the effects of the panel that
\* follow.  The effect on [isOpen, question, fetchExplanation]
\* (explanation-panel.tsx:103-105) runs when the question changed or the panel
\* was closed, with the fetchExplanation of that render, which holds the
\* language as it was; the effect on [question] (explanation-panel.tsx:75-80)
\* sets the language of the question, and if that is another one the next
\* render has a new fetchExplanation and the first effect runs again
handleExplainClick(q) ==
    /\ route = "/"
    /\ selectedQuestionForExplanation' = q
    /\ isExplanationPanelOpen' = TRUE
    /\ language' = IF q # selectedQuestionForExplanation THEN languageOf(q) ELSE language
    /\ IF q # selectedQuestionForExplanation \/ ~isExplanationPanelOpen
       THEN /\ explanationLoading' = TRUE
            /\ explanation' = NoExplanation
            /\ explainRequests' =
                   explainRequests \o <<Request(q, level, language)>>
                      \o (IF language' # language THEN <<Request(q, level, language')>>
                          ELSE <<>>)
       ELSE UNCHANGED <<explanation, explanationLoading, explainRequests>>
    /\ UNCHANGED <<level, homeVars, fnVars, otherVars, exportVars, toasts, consoleErrors>>

\* the sheet's onOpenChange(false) (explanation-panel.tsx:190)
closeExplanationPanel ==
    /\ route = "/"
    /\ isExplanationPanelOpen
    /\ isExplanationPanelOpen' = FALSE
    /\ UNCHANGED <<selectedQuestionForExplanation, explanation, explanationLoading,
                   explainRequests, level, language>>
    /\ UNCHANGED <<homeVars, fnVars, otherVars, exportVars, toasts, consoleErrors>>

\* fetchExplanation up to its await (explanation-panel.tsx:82-94)
startExplanation(q, lv, lang) ==
    /\ explanationLoading' = TRUE
    /\ explanation' = NoExplanation
    /\ explainRequests' = Append(explainRequests, Request(q, lv, lang))

\* the Regenerate button (explanation-panel.tsx:219), disabled while loading
regenerateExplanation ==
    /\ route = "/"
    /\ isExplanationPanelOpen /\ ~explanationLoading
    /\ selectedQuestionForExplanation # NoQuestion
    /\ startExplanation(selectedQuestionForExplanation, level, language)
    /\ UNCHANGED <<selectedQuestionForExplanation, isExplanationPanelOpen, level, language>>
    /\ UNCHANGED <<homeVars, fnVars, otherVars, exportVars, toasts, consoleErrors>>

\* the level tabs (explanation-panel.tsx:201): the next render has a new
\* fetchExplanation, and the effect calls it (explanation-panel.tsx:103-105)
setLevel(v) ==
    /\ route = "/"
    /\ isExplanationPanelOpen /\ selectedQuestionForExplanation # NoQuestion
    /\ v # level
    /\ level' = v
    /\ startExplanation(selectedQuestionForExplanation, v, language)
    /\ UNCHANGED <<selectedQuestionForExplanation, isExplanationPanelOpen, language>>
    /\ UNCHANGED <<homeVars, fnVars, otherVars, exportVars, toasts, consoleErrors>>

\* the language select (explanation-panel.tsx:210)
setLanguage(v) ==
    /\ route = "/"
    /\ isExplanationPanelOpen /\ selectedQuestionForExplanation # NoQuestion
    /\ v # language
    /\ language' = v
    /\ startExplanation(selectedQuestionForExplanation, level, v)
    /\ UNCHANGED <<selectedQuestionForExplanation, isExplanationPanelOpen, level>>
    /\ UNCHANGED <<homeVars, fnVars, otherVars, exportVars, toasts, consoleErrors>>

\* handleExplainQuestion resolved (explanation-panel.tsx:95, 98-100): the
\* explanation shown is the answer to the i-th call in flight
ExplanationResolved(i) ==
    /\ explanation' = explainRequests[i]
    /\ explanationLoading' = FALSE
    /\ explainRequests' = removeAt(explainRequests, i)
    /\ UNCHANGED <<selectedQuestionForExplanation, isExplanationPanelOpen, level, language>>
    /\ UNCHANGED <<homeVars, fnVars, otherVars, exportVars, toasts, consoleErrors>>

\* handleExplainQuestion rejected (explanation-panel.tsx:96-100): console.error
\* and nothing else
ExplanationRejected(i) ==
    /\ consoleErrors' = Append(consoleErrors, "Failed to fetch explanation:")
    /\ explanationLoading' = FALSE
    /\ explainRequests' = removeAt(explainRequests, i)
    /\ UNCHANGED <<selectedQuestionForExplanation, isExplanationPanelOpen, explanation,
                   level, language>>
    /\ UNCHANGED <<homeVars, fnVars, otherVars, exportVars, toasts>>

\* a click that opens the export options whoever is using the application
handleExportClickDialogForAll(stored) ==
    /\ route = "/"
    /\ IF isExamMode
       THEN UNCHANGED <<exportVars, toasts, consoleErrors>>
       ELSE IF filteredQuestions = <<>>
       THEN /\ toasts' = Append(toasts, "No questions to export")
            /\ UNCHANGED <<exportVars, consoleErrors>>
       ELSE /\ isExportDialogOpen' = TRUE
            /\ UNCHANGED <<isLocked, sessionStored, route, toasts, consoleErrors>>
    /\ UNCHANGED <<homeVars, fnVars, otherVars, panelVars>>

\* handleExportClick (header.tsx:88-122); stored tells whether
\* sessionStorage.setItem returned or threw
handleExportClick(stored) ==
    /\ route = "/"
    /\ IF isExamMode
       THEN UNCHANGED <<exportVars, toasts, consoleErrors>>
       ELSE IF filteredQuestions = <<>>
       THEN /\ toasts' = Append(toasts, "No questions to export")
            /\ UNCHANGED <<exportVars, consoleErrors>>
       ELSE IF isLocked
       THEN IF stored
            THEN /\ sessionStored' = JSONstringify(filteredQuestions)
                 /\ route' = "/export"
                 /\ UNCHANGED <<isLocked, isExportDialogOpen, toasts, consoleErrors>>
            ELSE /\ consoleErrors' =
                       Append(consoleErrors, "Failed to save questions to sessionStorage")
                 /\ toasts' = Append(toasts, "Export Failed")
                 /\ UNCHANGED exportVars
       ELSE /\ isExportDialogOpen' = TRUE
            /\ UNCHANGED <<isLocked, sessionStored, route, toasts, consoleErrors>>
    /\ UNCHANGED <<homeVars, fnVars, otherVars, panelVars>>

(***************************************************************************)
(* The export page (app/export/page.tsx) from its mount on: the effect has *)
(* set the 200 ms timer, sessionStorage holds what the browser has under   *)
(* "questionsForExport".                                                   *)
(***************************************************************************)
StoredContents == {NothingStored} \cup {JSONstringify(b) : b \in Buckets} \cup NotJSON

InitExport ==
    /\ HomeInit
    /\ selectedQuestionForExplanation = NoQuestion
    /\ isExplanationPanelOpen = FALSE
    /\ explanation = NoExplanation
    /\ explanationLoading = FALSE
    /\ explainRequests = <<>>
    /\ level = "short"
    /\ language = "en"
    /\ isLocked = TRUE
    /\ isExportDialogOpen = FALSE
    /\ sessionStored \in StoredContents
    /\ route = "/export"
    /\ toasts = <<>>
    /\ consoleErrors = <<>>
    /\ heldHandlers = <<>>
    /\ exportPageQuestions = <<>>
    /\ exportPageLoading = TRUE
    /\ exportTimer = "pending"
    /\ call = NoCall /\ ret = NoRet

\* the timer's callback (export/page.tsx:20-33).  JSON.parse throws on a text
\* that is not JSON; the callback runs from the timer, outside the try of the
\* effect that set it (export/page.tsx:19, 36), so the exception ends the
\* callback and nothing catches it
ExportTimerFires ==
    /\ exportTimer = "pending"
    /\ exportTimer' = "fired"
    /\ IF sessionStored = NothingStored
       THEN /\ toasts' = Append(toasts, "No questions to display")
            /\ route' = "/"
            /\ exportPageLoading' = FALSE
            /\ UNCHANGED exportPageQuestions
       ELSE IF sessionStored.json
       THEN /\ exportPageQuestions' = sessionStored.value
            /\ exportPageLoading' = FALSE
            /\ UNCHANGED <<toasts, route>>
       ELSE UNCHANGED <<exportPageQuestions, exportPageLoading, toasts, route>>
    /\ UNCHANGED <<homeVars, fnVars, panelVars, isLocked, isExportDialogOpen, sessionStored,
                   consoleErrors, heldHandlers>>

NextExport == ExportTimerFires

SpecExport == InitExport /\ [][NextExport]_vars

InitUi ==
    /\ HomeInit
    /\ \E locked \in BOOLEAN : UiInit(locked)
    /\ call = NoCall /\ ret = NoRet

\* the exam is started here with the shuffle that leaves the order as it is,
\* and the explanation asked for is that of the first card
NextUi ==
    \/ \E data \in Snapshots : FetchQuestionsSucceeded(data) /\ UNCHANGED <<fnVars, uiVars>>
    \/ FetchQuestionsFailed /\ UNCHANGED call /\ UNCHANGED ret
    \/ \E q \in Range(slice(filteredQuestions, 0, 1)) :
          /\ Len(explainRequests) < MaxRequests
          /\ handleExplainClick(q)
    \/ closeExplanationPanel
    \/ Len(explainRequests) < MaxRequests /\ regenerateExplanation
    \/ \E i \in 1..Len(explainRequests) : ExplanationResolved(i)
    \/ \E i \in 1..Len(explainRequests) :
          Len(consoleErrors) < MaxErrors /\ ExplanationRejected(i)
    \/ \E stored \in BOOLEAN :
          /\ Len(toasts) < MaxToasts /\ Len(consoleErrors) < MaxErrors
          /\ handleExportClick(stored)
    \/ \E shuffled \in {questions} :
          route = "/" /\ startExam(shuffled) /\ UNCHANGED <<fnVars, uiVars>>
    \/ route = "/" /\ resetView /\ UNCHANGED <<fnVars, uiVars>>

SpecUi == InitUi /\ [][NextUi]_vars

(***************************************************************************)
(* The explanation panel with its level tabs and its language select, over *)
(* a collection of an English and an Arabic question.                      *)
(***************************************************************************)
WithLanguage(q, lang) ==
    [k \in DOMAIN q \cup {"language"} |-> IF k = "language" THEN lang ELSE q[k]]

PanelBank == <<WithLanguage(Q1, "en"), WithLanguage(Q2, "ar")>>

Levels == {"short", "full"}
Languages == {"en", "ar"}

NextPanel ==
    \/ FetchQuestionsSucceeded(PanelBank) /\ UNCHANGED <<fnVars, uiVars>>
    \/ \E q \in Range(filteredQuestions) :
          /\ Len(explainRequests) < MaxRequests
          /\ handleExplainClick(q)
    \/ closeExplanationPanel
    \/ Len(explainRequests) < MaxRequests /\ regenerateExplanation
    \/ \E v \in Levels : Len(explainRequests) < MaxRequests /\ setLevel(v)
    \/ \E v \in Languages : Len(explainRequests) < MaxRequests /\ setLanguage(v)
    \/ \E i \in 1..Len(explainRequests) : ExplanationResolved(i)
    \/ \E i \in 1..Len(explainRequests) :
          Len(consoleErrors) < MaxErrors /\ ExplanationRejected(i)

SpecPanel == Init /\ [][NextPanel]_vars

(***************************************************************************)
(* Properties                                                              *)
(***************************************************************************)
occurrences(s, v) == Cardinality({i \in 1..Len(s) : s[i] = v})

IsPermutation(s, t) ==
    /\ Len(s) = Len(t)
    /\ \A v \in Range(s) \cup Range(t) : occurrences(s, v) = occurrences(t, v)

\* the questions that pass the quiz slice and the filters of the current view,
\* in the order the filters leave them
Temp == filtered(questions, filters, searchQuery, savedQuestionIds, clock)

\* the view is the question list with grouping on
GroupedView == ~isExamMode /\ filters.groupSimilarOptions

\* two option texts are near-duplicates: they pass the comparison guard, and they
\* normalize to the same text, or score the threshold by bigrams or by containment
NearDuplicate(a, b) ==
    /\ isWorthComparing(a, b, DEFAULTS.minLen)
    /\ \/ normalizeText(a) = normalizeText(b)
       \/ FLeq(DEFAULTS.threshold, diceSimilarity(a, b))
       \/ FLeq(DEFAULTS.threshold, containment(normalizeText(a), normalizeText(b)))

\* two of the question's own options are near-duplicates of each other
OwnNearDuplicate(q) ==
    \E opts \in {extractOptions(q)} :
        \E i, j \in 1..Len(opts) : i < j /\ NearDuplicate(opts[i], opts[j])

\* the question's correct answer is a near-duplicate of another filtered
\* question's correct answer
SharesCorrectAnswer(q) ==
    \E p \in Range(Temp) : p.id # q.id /\ NearDuplicate(q.correctAnswer.v, p.correctAnswer.v)

\* the displayed list after the similar bucket
OtherPart == SubSeq(filteredQuestions, Len(similarBucket) + 1, Len(filteredQuestions))

\* the displayed list's part that holds the similar bucket
SimilarPart == SubSeq(filteredQuestions, 1, Len(similarBucket))

hasChapterNumber(q) == chapterMatches(q.chapter) # {}

\* C1: outside exam mode the displayed list is a permutation of the questions
\* that pass the filters: none added, dropped or duplicated, whatever the
\* filters, search text, saved ids, grouping toggle and sort mode.
C1_DisplayedIsPermutationOfFiltered ==
    ~isExamMode => IsPermutation(filteredQuestions, Temp)

\* C1 witness: all five questions on display, grouped with a bucket of three,
\* in random order, and not in the order the filters left them
C1_GroupedRandomReordered ==
    /\ GroupedView /\ sort = random
    /\ Len(similarBucket) >= 3
    /\ Len(filteredQuestions) = Len(Bank)
    /\ filteredQuestions # Temp

\* C2 (amended): with grouping on, the similar bucket holds exactly the filtered
\* questions two of whose own options are near-duplicates of each other.
C2_BucketIsOwnNearDuplicates ==
    GroupedView =>
        /\ Range(similarBucket) = {q \in Range(Temp) : OwnNearDuplicate(q)}
        /\ Len(similarBucket) = Cardinality(Range(similarBucket))

\* C2 as stated: with grouping on, the similar bucket holds exactly the filtered
\* questions whose correct-answer text is a near-duplicate of another filtered
\* question's.
C2_BucketIsSharedCorrectAnswers ==
    GroupedView => Range(similarBucket) = {q \in Range(Temp) : SharesCorrectAnswer(q)}

\* C2 witness: a grouped view whose bucket holds a question that shares its
\* correct answer with no other, and leaves out one that does
C2_BucketDiffersFromSharing ==
    /\ GroupedView
    /\ \E q \in Range(similarBucket) : ~SharesCorrectAnswer(q)
    /\ \E q \in Range(Temp) \ Range(similarBucket) : SharesCorrectAnswer(q)

\* C3: with grouping on and sort = chapter ascending, the displayed list is the
\* ordered similar bucket followed by all the other filtered questions, and
\* these are in non-decreasing chapter number, those without a number last.
C3_GroupedChapterAscending ==
    (GroupedView /\ sort = chapter_asc) =>
        /\ Len(similarBucket) <= Len(filteredQuestions)
        /\ SimilarPart = orderSimilarQuestions(questions, similarBucket, sort,
                                               randomSeed(filters, searchQuery, sort))
        /\ IsPermutation(SimilarPart, similarBucket)
        /\ Range(OtherPart) = Range(Temp) \ Range(similarBucket)
        /\ Len(OtherPart) = Cardinality(Range(OtherPart))
        /\ \A i, j \in 1..Len(OtherPart) :
              i < j => /\ getChapterNumber(OtherPart[i].chapter)
                             <= getChapterNumber(OtherPart[j].chapter)
                       /\ hasChapterNumber(OtherPart[j]) => hasChapterNumber(OtherPart[i])

\* C3 witness: a bucket and, after it, a numbered chapter before an unnumbered
\* one that the collection holds the other way round
C3_OtherPartSorted ==
    /\ GroupedView /\ sort = chapter_asc
    /\ Len(similarBucket) >= 2
    /\ Len(OtherPart) >= 2
    /\ hasChapterNumber(OtherPart[1]) /\ ~hasChapterNumber(OtherPart[Len(OtherPart)])
    /\ OtherPart # SelectSeq(questions, LAMBDA q : q \in Range(OtherPart))

\* C4 (amended): a similar bucket of exactly two questions (grouping on, sort =
\* chapter ascending) is displayed in the order the filtered list holds the two,
\* ascending chapter number, whatever their maxSimilarity.
C4_TwoBucketKeepsFilteredOrder ==
    (GroupedView /\ sort = chapter_asc /\ Len(similarBucket) = 2) =>
        /\ SimilarPart = similarBucket
        /\ SimilarPart = SelectSeq(Temp, LAMBDA q : q \in Range(similarBucket))
        /\ getChapterNumber(SimilarPart[1].chapter) <= getChapterNumber(SimilarPart[2].chapter)

\* C4 as stated: a similar bucket of exactly two questions is displayed with the
\* higher maxSimilarity first, and in first-encountered order only on a tie.
C4_TwoBucketHigherSimilarityFirst ==
    (GroupedView /\ sort = chapter_asc /\ Len(similarBucket) = 2) =>
        \/ FLess(maxSimilarityOf(questions, filteredQuestions[2].id),
                 maxSimilarityOf(questions, filteredQuestions[1].id))
        \/ /\ maxSimilarityOf(questions, filteredQuestions[2].id)
                = maxSimilarityOf(questions, filteredQuestions[1].id)
           /\ SimilarPart = similarBucket

\* C4 witness: a bucket of two displayed with the lower maxSimilarity first
C4_TwoBucketLowerSimilarityFirst ==
    /\ GroupedView /\ sort = chapter_asc /\ Len(similarBucket) = 2
    /\ FLess(maxSimilarityOf(questions, filteredQuestions[1].id),
             maxSimilarityOf(questions, filteredQuestions[2].id))

OrderReturned == call.fn = "orderSimilarQuestions" /\ ret.done

\* C5: for a bucket with pairwise distinct ids and any sort mode,
\* orderSimilarQuestions returns a sequence of the bucket's length that holds
\* every bucket id exactly once.
C5_OrderKeepsEveryIdOnce ==
    OrderReturned =>
        /\ Len(ret.value) = Len(call.arr)
        /\ \A k \in 1..Len(call.arr) :
              Cardinality({i \in 1..Len(ret.value) : ret.value[i].id = call.arr[k].id}) = 1

\* C5 witness: a bucket of three or more returned in another order, in random
\* sort mode
C5_LargeBucketReordered ==
    /\ OrderReturned
    /\ Len(call.arr) >= 3 /\ call.sort = random
    /\ ret.value # call.arr

\* C6: orderSimilarQuestions returns a bucket of 0, 1 or 2 questions unchanged,
\* in every sort mode, random included.
C6_SmallBucketUnchanged ==
    (OrderReturned /\ Len(call.arr) <= 2) => ret.value = call.arr

\* C6 witness: a bucket of two in random sort mode that the chain would start
\* with its second question
C6_TwoBucketChainWouldReorder ==
    /\ OrderReturned
    /\ Len(call.arr) = 2 /\ call.sort = random
    /\ chains(Bank, call.arr, <<>>, idSet(call.arr, {})).out # call.arr

\* the view is the question list in random order, before and after the step
RandomBefore == ~isExamMode /\ sort = random
SameInputs ==
    /\ ~isExamMode' /\ sort' = random
    /\ questions' = questions /\ filters' = filters
    /\ searchQuery' = searchQuery /\ savedQuestionIds' = savedQuestionIds

ShuffleReturned == call.fn = "seededShuffle" /\ ret.done

\* C8: seededShuffle leaves the sequence it is given unchanged and returns a
\* permutation of it; the Fisher-Yates step at index i, from the last index down
\* to 1, draws a swap index j with 0 <= j <= i.
C8_ShuffleIsPermutationOfUntouchedInput ==
    ShuffleReturned =>
        /\ ret.arr = call.arr
        /\ IsPermutation(ret.value, call.arr)
        /\ Len(ret.draws) = (IF Len(call.arr) = 0 THEN 0 ELSE Len(call.arr) - 1)
        /\ \A k \in 1..Len(ret.draws) :
              /\ ret.draws[k][1] = Len(call.arr) - k
              /\ 0 <= ret.draws[k][2] /\ ret.draws[k][2] <= ret.draws[k][1]

\* C8 witness: a shuffle of three or more entries that drew a j below i and
\* returned another order
C8_ShuffleReordered ==
    /\ ShuffleReturned
    /\ Len(call.arr) >= 3
    /\ \E k \in 1..Len(ret.draws) : ret.draws[k][2] < ret.draws[k][1]
    /\ ret.value # call.arr

\* C9: normalizeText is idempotent: normalizeText(normalizeText(s)) equals
\* normalizeText(s), also for strings that begin or end with punctuation.
C9_NormalizeIdempotent ==
    (call.fn = "normalizeText" /\ ret.done) => ret.again = ret.value

DiceReturned == call.fn = "diceSimilarity" /\ ret.done

\* C10: diceSimilarity is symmetric: diceSimilarity(a, b) equals
\* diceSimilarity(b, a), also for strings with repeated bigrams.
C10_DiceSymmetric ==
    DiceReturned => ret.value = diceSimilarity(call.b, call.a)

\* C10 witness: two different strings of one repeated bigram, scoring strictly
\* between 0 and 1
C10_RepeatedBigrams ==
    /\ DiceReturned
    /\ call.a = <<"a", "a", "a">> /\ call.b = <<"a", "a">>
    /\ FLess(FZero, ret.value) /\ FLess(ret.value, FOne)

\* the number of positions of B matched by the multiset intersection of A and
\* B: the n-th occurrence of a bigram in B is matched when A holds it n times
multisetIntersection(A, B) ==
    Cardinality({k \in 1..Len(B) :
        Cardinality({j \in 1..k : B[j] = B[k]}) <=
            Cardinality({i \in 1..Len(A) : A[i] = B[k]})})

\* C11: diceSimilarity(a, b) is 0 when either normalized string has fewer
\* than 2 characters, and otherwise 2 * m / (|bigrams(a)| + |bigrams(b)|) with
\* m the size of the multiset intersection of the two bigram sequences; it is
\* 1 for identical strings of normalized length 2 or more and always lies in
\* [0, 1].
C11_DiceIsMultisetCoefficient ==
    DiceReturned =>
        \A na \in {normalizeText(call.a)} : \A nb \in {normalizeText(call.b)} :
            /\ (Len(na) < 2 \/ Len(nb) < 2) => ret.value = FZero
            /\ (Len(na) >= 2 /\ Len(nb) >= 2) =>
                  ret.value =
                     Frac(2 * multisetIntersection(
                                 [i \in 1..(Len(na) - 1) |-> SubSeq(na, i, i + 1)],
                                 [i \in 1..(Len(nb) - 1) |-> SubSeq(nb, i, i + 1)]),
                          (Len(na) - 1) + (Len(nb) - 1))
            /\ (call.a = call.b /\ Len(na) >= 2) => ret.value = FOne
            /\ FLeq(FZero, ret.value) /\ FLeq(ret.value, FOne)

\* C11 witness: two texts that normalization changes, each of two or more
\* normalized characters, sharing some but not all of their bigrams
C11_PartialOverlapAfterNormalizing ==
    /\ DiceReturned
    /\ normalizeText(call.a) # call.a /\ Len(normalizeText(call.a)) >= 2
    /\ normalizeText(call.b) # call.b /\ Len(normalizeText(call.b)) >= 2
    /\ FLess(FZero, ret.value) /\ FLess(ret.value, FOne)

MetaReturned == call.fn = "getSimilarOptionsMeta" /\ ret.done

\* the score of one pair of options: 1 for equal normalized texts, else the
\* larger of the bigram similarity and the containment bonus
pairScore(a, b) ==
    IF normalizeText(a) = normalizeText(b) THEN FOne
    ELSE FMax(diceSimilarity(a, b), containment(normalizeText(a), normalizeText(b)))

\* the pairs i < j of options that pass the comparison guard
guardedPairs(opts, minLen) ==
    {p \in (1..Len(opts)) \X (1..Len(opts)) :
        p[1] < p[2] /\ isWorthComparing(opts[p[1]], opts[p[2]], minLen)}

\* the score of every pair of G
scoresOf(opts, G) == Table([p \in G |-> pairScore(opts[p[1]], opts[p[2]])])

\* the configuration a call runs under
thresholdOf(cfg) == IF "threshold" \in DOMAIN cfg THEN cfg.threshold ELSE DEFAULTS.threshold
minLenOf(cfg) == IF "minLen" \in DOMAIN cfg THEN cfg.minLen ELSE DEFAULTS.minLen

CallOptions == extractOptions(call.q)
CallGuarded == guardedPairs(CallOptions, minLenOf(call.cfg))

\* C12: getSimilarOptionsMeta returns maxSimilarity equal to the maximum score
\* over all option pairs that pass the comparison guard (0 if none), with
\* 0 <= maxSimilarity <= 1, and hasSimilar is true exactly when
\* maxSimilarity >= threshold.
C12_MaxSimilarityIsMaxOverGuardedPairs ==
    MetaReturned =>
        \A opts \in {CallOptions} : \A G \in {guardedPairs(opts, minLenOf(call.cfg))} :
        \A sc \in {scoresOf(opts, G)} :
            /\ G = {} => ret.value.maxSimilarity = FZero
            /\ G # {} =>
                  /\ \E p \in G : ret.value.maxSimilarity = sc[p]
                  /\ \A p \in G : FLeq(sc[p], ret.value.maxSimilarity)
            /\ FLeq(FZero, ret.value.maxSimilarity) /\ FLeq(ret.value.maxSimilarity, FOne)
            /\ ret.value.hasSimilar <=> FLeq(thresholdOf(call.cfg), ret.value.maxSimilarity)

\* C12 witness: three options of which only the first and the last are alike,
\* under a configuration that gives a threshold
C12_BestPairNotAdjacent ==
    /\ MetaReturned
    /\ Len(CallOptions) = 3
    /\ "threshold" \in DOMAIN call.cfg
    /\ CallGuarded = {<<1, 2>>, <<1, 3>>, <<2, 3>>}
    /\ ret.value.maxSimilarity = pairScore(CallOptions[1], CallOptions[3])
    /\ FLess(pairScore(CallOptions[1], CallOptions[2]), ret.value.maxSimilarity)
    /\ FLess(pairScore(CallOptions[2], CallOptions[3]), ret.value.maxSimilarity)
    /\ ret.value.hasSimilar

NoPairMeta(m) ==
    m.maxSimilarity = FZero /\ m.clusterKey = NullKey /\ m.bestPair = NullPair

\* C13 as stated: for a question with 0 or 1 extracted options (missing, null
\* and malformed options fields included) getSimilarOptionsMeta returns
\* hasSimilar = false, maxSimilarity = 0, clusterKey = null and bestPair = null
\* under every configuration.
C13_FewOptionsNeverSimilar ==
    (MetaReturned /\ Len(CallOptions) <= 1) =>
        (~ret.value.hasSimilar /\ NoPairMeta(ret.value))

\* C13: for a question with 0 or 1 extracted options getSimilarOptionsMeta
\* returns maxSimilarity = 0, clusterKey = null and bestPair = null under every
\* configuration, and hasSimilar = false under every configuration whose
\* threshold is greater than 0; under a threshold of 0 hasSimilar is true.
C13_FewOptionsNotSimilarAboveZero ==
    (MetaReturned /\ Len(CallOptions) <= 1) =>
        /\ NoPairMeta(ret.value)
        /\ ret.value.hasSimilar <=> ~FLess(FZero, thresholdOf(call.cfg))

\* C13 witness: a malformed options field that leaves one option, under a
\* configuration that sets a positive threshold
C13_MalformedSingleOption ==
    /\ MetaReturned
    /\ call.q \in MalformedQuestions /\ Len(CallOptions) = 1
    /\ "threshold" \in DOMAIN call.cfg /\ FLess(FZero, call.cfg.threshold)
    /\ ~ret.value.hasSimilar

\* the pairs of G whose score no pair of G exceeds; sc holds the scores
topPairs(G, sc) == {p \in G : \A r \in G : FLeq(sc[r], sc[p])}

\* the guarded pairs that score above 0
CallScoring == {p \in CallGuarded : FLess(FZero, pairScore(CallOptions[p[1]], CallOptions[p[2]]))}

\* C14 as stated: bestPair is null exactly when the question has fewer than 2
\* options or no option pair passes the comparison guard; whenever a pair
\* passes the guard, bestPair is the original text of the highest-scoring such
\* pair.
C14_BestPairNullIffNoGuardedPair ==
    MetaReturned =>
        \A opts \in {CallOptions} : \A G \in {guardedPairs(opts, minLenOf(call.cfg))} :
            /\ ret.value.bestPair = NullPair <=> (Len(opts) < 2 \/ G = {})
            /\ G # {} =>
                  \E p \in topPairs(G, scoresOf(opts, G)) :
                      ret.value.bestPair = <<opts[p[1]], opts[p[2]]>>

\* C14: bestPair is null exactly when the question has fewer than 2 options or
\* no option pair that passes the comparison guard scores above 0; whenever a
\* guarded pair scores above 0, bestPair is the original text of a
\* highest-scoring guarded pair.
C14_BestPairNullIffNoScoringPair ==
    MetaReturned =>
        \A opts \in {CallOptions} : \A G \in {guardedPairs(opts, minLenOf(call.cfg))} :
        \A sc \in {scoresOf(opts, G)} :
            /\ ret.value.bestPair = NullPair <=>
                  (Len(opts) < 2 \/ \A p \in G : sc[p] = FZero)
            /\ (\E p \in G : FLess(FZero, sc[p])) =>
                  \E p \in topPairs(G, sc) :
                      ret.value.bestPair = <<opts[p[1]], opts[p[2]]>>

\* C14 witness: two options that pass the guard and share no bigram, so that
\* no pair is named
C14_GuardedPairScoresZero ==
    /\ MetaReturned
    /\ Len(CallOptions) = 2 /\ CallGuarded = {<<1, 2>>}
    /\ pairScore(CallOptions[1], CallOptions[2]) = FZero
    /\ ret.value.bestPair = NullPair

ExtractReturned == call.fn = "extractOptions" /\ ret.done

\* the first present, non-null field among the recognised names
presentFields(q) ==
    {i \in 1..Len(FieldNames) : FieldNames[i] \in DOMAIN q /\ ~Nullish(q[FieldNames[i]])}

firstPresent(q) ==
    IF presentFields(q) = {} THEN JUndef
    ELSE q[FieldNames[CHOOSE i \in presentFields(q) : \A j \in presentFields(q) : i <= j]]

\* the entries of a raw source: the elements of a sequence, the values of a
\* mapping, none for any other value
entriesOf(raw) ==
    IF raw.t = "array" THEN raw.v
    ELSE IF raw.t = "object" THEN Array([i \in 1..Len(raw.v) |-> raw.v[i][2]])
    ELSE <<>>

\* string as-is; object: text, else label, else value, else empty
coerced(x) ==
    IF x.t = "string" THEN x.v
    ELSE IF x.t = "object" /\ ~Nullish(Prop(x, "text")) THEN String(Prop(x, "text"))
    ELSE IF x.t = "object" /\ ~Nullish(Prop(x, "label")) THEN String(Prop(x, "label"))
    ELSE IF x.t = "object" /\ ~Nullish(Prop(x, "value")) THEN String(Prop(x, "value"))
    ELSE <<>>

coercedEntries(es) == NonEmpty([i \in 1..Len(es) |-> trim(coerced(es[i]))])

\* every entry is a string or an object
PlainEntries(es) == \A i \in 1..Len(es) : es[i].t \in {"string", "object"}

\* C15: extractOptions returns the entries of the first present, non-null
\* field among options, choices, answerOptions, answers, answersList and
\* optionsText, each coerced to a string (string as-is; object: text, else
\* label, else value, else empty), trimmed, empty entries dropped, order
\* kept; it returns the empty sequence when no recognised field is present or
\* the value is neither a sequence nor a mapping.
C15_ExtractIsCoercedFirstField ==
    (ExtractReturned /\ PlainEntries(entriesOf(firstPresent(call.q)))) =>
        ret.value = coercedEntries(entriesOf(firstPresent(call.q)))

\* C16: when the raw options source is a key-value mapping, extractOptions
\* coerces and filters its values exactly as it does the elements of a
\* sequence: extractOptions({options: {k1: v1, ...}}) equals
\* extractOptions({options: [v1, ...]}), also for values that are objects
\* carrying only value and values that are neither strings nor objects.
C16_MappingAsSequence ==
    (ExtractReturned /\ DOMAIN call.q = {"options"} /\ call.q.options.t = "object") =>
        ret.value = extractOptions(WithOptions(JArr(entriesOf(call.q.options))))

SimReturned == call.fn = "questionSimilarity" /\ ret.done

\* the question has no option with a non-empty normalized text, or the
\* collection the cache is built from holds no record of its id
NoUsableOptions(qs, q) ==
    \/ ~hasId(qs, q.id)
    \/ \A opts \in {extractOptions(lastWithId(qs, q.id))} :
          \A i \in 1..Len(opts) : normalizeText(opts[i]) = <<>>

\* C17: questionSimilarity(a, b) equals questionSimilarity(b, a), lies in
\* [0, 1], and is 0 when either question has no usable normalized options or
\* is absent from the per-id option cache.
C17_QuestionSimilaritySymmetricBounded ==
    SimReturned =>
        /\ ret.value = questionSimilarity(call.qs, call.b, call.a)
        /\ FLeq(FZero, ret.value) /\ FLeq(ret.value, FOne)
        /\ (NoUsableOptions(call.qs, call.a) \/ NoUsableOptions(call.qs, call.b)) =>
              ret.value = FZero

\* C17 witness: two cached questions with different numbers of options whose
\* two one-way averages differ
C17_OneWayAveragesDiffer ==
    /\ SimReturned
    /\ ~NoUsableOptions(call.qs, call.a) /\ ~NoUsableOptions(call.qs, call.b)
    /\ bestAvg(optionsById(call.qs, call.a.id), optionsById(call.qs, call.b.id))
         # bestAvg(optionsById(call.qs, call.b.id), optionsById(call.qs, call.a.id))
    /\ FLess(FZero, ret.value) /\ FLess(ret.value, FOne)

\* the pair of P the two loops reach first: i ascending, then j ascending
firstPair(P) ==
    CHOOSE p \in P : \A r \in P : p[1] < r[1] \/ (p[1] = r[1] /\ p[2] <= r[2])

\* C19: pairs are scanned with i ascending then j ascending and the first pair
\* reaching the best score is kept: a later pair with the same score, also one
\* whose normalized forms are equal after an earlier pair scored 1, does not
\* take over bestPair and clusterKey.
C19_FirstBestPairKept ==
    (MetaReturned /\ CallScoring # {}) =>
        \A opts \in {CallOptions} : \A G \in {guardedPairs(opts, minLenOf(call.cfg))} :
        \A p \in {firstPair(topPairs(G, scoresOf(opts, G)))} :
            /\ ret.value.bestPair = <<opts[p[1]], opts[p[2]]>>
            /\ ret.value.hasSimilar =>
                  ret.value.clusterKey = sortedKey(normalizeText(opts[p[1]]),
                                                   normalizeText(opts[p[2]]))

\* the entries of arr that are not among the first n of out
notPlaced(arr, out, n) == {x \in Range(arr) : \A i \in 1..n : out[i] # x}

positionIn(arr, x) == CHOOSE i \in 1..Len(arr) : arr[i] = x

\* x comes before y in the greedy choice by the scores sx and sy: the greater
\* score, and on equal scores the earlier place in the bucket
Preferred(arr, x, sx, y, sy) ==
    FLess(sy, sx) \/ (sx = sy /\ positionIn(arr, x) <= positionIn(arr, y))

\* C20: for a bucket of 3 or more questions and a sort mode other than random,
\* orderSimilarQuestions returns the greedy nearest-neighbour chain: the first
\* element has the highest cached maxSimilarity (the earliest in bucket order
\* on ties), and every later element is, among those not yet placed, the one
\* with the greatest questionSimilarity to the element just before it (the
\* earliest in bucket order on ties).
C20_GreedyNearestNeighbourChain ==
    (OrderReturned /\ Len(call.arr) >= 3 /\ call.sort # random) =>
        /\ Len(ret.value) = Len(call.arr)
        /\ ret.value[1] \in Range(call.arr)
        /\ \A y \in Range(call.arr) :
              Preferred(call.arr, ret.value[1], maxSimilarityOf(Bank, ret.value[1].id),
                        y, maxSimilarityOf(Bank, y.id))
        /\ \A k \in 2..Len(ret.value) :
              /\ ret.value[k] \in notPlaced(call.arr, ret.value, k - 1)
              /\ \A y \in notPlaced(call.arr, ret.value, k - 1) :
                    Preferred(call.arr,
                              ret.value[k], questionSimilarity(Bank, ret.value[k - 1], ret.value[k]),
                              y, questionSimilarity(Bank, ret.value[k - 1], y))

\* C20 witness: a bucket of three or more in which a later question starts the
\* chain and two candidates tie for a place that the earlier one takes
C20_ChainWithTie ==
    /\ OrderReturned /\ Len(call.arr) >= 3 /\ call.sort # random
    /\ ret.value[1] # call.arr[1]
    /\ \E k \in 2..(Len(ret.value) - 1) :
          \E y \in notPlaced(call.arr, ret.value, k) :
              questionSimilarity(Bank, ret.value[k - 1], y)
                 = questionSimilarity(Bank, ret.value[k - 1], ret.value[k])

\* C18: every collaborator failure is reported to the user: when the data-store
\* fetch fails, when the AI explanation call fails and when writing the export
\* to session storage fails, the step that handles the failure shows a
\* transient notification or leads back to the default view.
C18_EveryFailureReported ==
    [][consoleErrors' # consoleErrors =>
          (toasts' # toasts \/ (route # "/" /\ route' = "/"))]_vars

\* C21: for every bucket of 3 or more questions orderSimilarQuestions returns
\* after exactly one chain: pickBestStart runs once, and the inner
\* nearest-neighbour loop ends with the remaining set empty, never through the
\* break taken when no candidate is found.
C21_ExactlyOneChain ==
    (OrderReturned /\ Len(call.arr) >= 3) =>
        /\ ret.starts = 1
        /\ ~ret.broke
        /\ Len(ret.value) = Len(call.arr)

\* C21 witness: a bucket of three or more in which a question placed in the
\* chain has similarity 0 to the one before it
C21_ChainThroughZeroSimilarity ==
    /\ OrderReturned /\ Len(call.arr) >= 3 /\ call.sort # random
    /\ ret.starts = 1
    /\ \E k \in 2..Len(ret.value) :
          questionSimilarity(Bank, ret.value[k - 1], ret.value[k]) = FZero

\* C22: the export-options dialog is never opened while the application is
\* locked.  In every step: in exam mode nothing of the export changes and no
\* notification is shown; with an empty filtered list nothing is stored, no
\* navigation happens and the dialog stays closed; the only navigation is to
\* /export, with the application locked and the current filtered list stored;
\* nothing is stored without that navigation; and isExportDialogOpen is set
\* only with the application unlocked.
C22_ExportDialogOnlyWhenUnlocked ==
    [][/\ isExamMode => (exportVars' = exportVars /\ toasts' = toasts)
       /\ filteredQuestions = <<>> =>
              (/\ sessionStored' = sessionStored /\ route' = route
               /\ isExportDialogOpen' = isExportDialogOpen)
       /\ route' # route =>
              (/\ isLocked /\ route' = "/export"
               /\ sessionStored' = JSONstringify(filteredQuestions)
               /\ isExportDialogOpen' = isExportDialogOpen)
       /\ sessionStored' # sessionStored => route' # route
       /\ isExportDialogOpen' # isExportDialogOpen =>
              (isExportDialogOpen' /\ ~isLocked)]_vars

\* C22 witness: the dialog open on a non-empty list, which only an unlocked
\* click outside exam mode brings about
C22_DialogOpenedUnlocked ==
    isExportDialogOpen /\ ~isLocked /\ filteredQuestions # <<>>

\* C23: while isExamMode is true no step (a change of filters, search text,
\* sort, saved ids or of the question collection included) changes
\* filteredQuestions or removes a recorded answer from userAnswers: the exam
\* list stays as startExam chose it.  The step that leaves exam mode
\* (resetView) recomputes the list from the filters, search text, sort and
\* saved ids then current.
C23_ExamListFixedUntilReset ==
    [][/\ (isExamMode /\ isExamMode') =>
              (/\ filteredQuestions' = filteredQuestions
               /\ \A id \in DOMAIN userAnswers : id \in DOMAIN userAnswers')
       /\ (isExamMode /\ ~isExamMode') =>
              filteredQuestions' = filterEffect(questions', filters', searchQuery',
                                                savedQuestionIds', sort', clock').list]_vars

\* C23 witness: an exam with a recorded answer whose list still shows a
\* question that has been deleted from the collection, and a saved id
C23_ExamKeepsDeletedQuestion ==
    /\ isExamMode /\ userAnswers # NoAnswers /\ savedQuestionIds # <<>>
    /\ \E q \in Range(filteredQuestions) : ~hasId(questions, q.id)

NoRepeatedId(qs) == \A i, j \in 1..Len(qs) : qs[i].id = qs[j].id => i = j

\* C24: startExam on a collection of n questions with unique ids leaves in
\* filteredQuestions exactly min(90, n) questions, all of the collection and
\* pairwise distinct, with userAnswers empty, examScore 0, isExamFinished false
\* and filters, search text and sort at their initial values.
C24_StartExamTakesNinetyDistinct ==
    [][(~isExamMode /\ isExamMode' /\ NoRepeatedId(questions)) =>
          /\ Len(filteredQuestions') = Min({EXAM_QUESTION_COUNT, Len(questions)})
          /\ \A q \in Range(filteredQuestions') : q \in Range(questions)
          /\ NoRepeatedId(filteredQuestions')
          /\ userAnswers' = NoAnswers
          /\ examScore' = 0
          /\ ~isExamFinished'
          /\ filters' = initialFilters
          /\ searchQuery' = <<>>
          /\ sort' = chapter_asc]_vars

\* C24 witness: an exam of 90 questions drawn from a collection of 91, the
\* collection's last question among them and its first left out
C24_ExamOfNinetyOutOfMore ==
    /\ isExamMode /\ Len(questions) > EXAM_QUESTION_COUNT
    /\ Len(filteredQuestions) = EXAM_QUESTION_COUNT
    /\ filteredQuestions[1] = questions[Len(questions)]
    /\ questions[1] \notin Range(filteredQuestions)

\* the answer recorded for q matches q's correct answer
AnswerMatches(q) ==
    /\ q.id \in DOMAIN userAnswers
    /\ \A a \in {userAnswers[q.id]} :
          IF q.correctAnswer.t = "array"
          THEN a.t = "array" /\ IsPermutation(a.v, q.correctAnswer.v)
          ELSE a.t = "string" /\ a.v = q.correctAnswer.v

Answered == {k \in 1..Len(filteredQuestions) : filteredQuestions[k].id \in DOMAIN userAnswers}

\* C25: the step that finishes the exam (submitExam) sets examScore to the
\* number of questions of filteredQuestions whose recorded answer matches the
\* correct answer (one correct answer: equality; several: as many entries and
\* the same entries in whatever order), so that
\* 0 <= examScore <= number of answered questions <= |filteredQuestions| <= 90.
C25_ScoreCountsMatchingAnswers ==
    [][(~isExamFinished /\ isExamFinished') =>
          /\ examScore' = Cardinality({k \in 1..Len(filteredQuestions) :
                                          AnswerMatches(filteredQuestions[k])})
          /\ 0 <= examScore'
          /\ examScore' <= Cardinality(Answered)
          /\ Cardinality(Answered) <= Len(filteredQuestions)
          /\ Len(filteredQuestions) <= EXAM_QUESTION_COUNT]_vars

\* C25 witness: a finished exam of 90 questions with both answers counted, the
\* one to the question with two correct answers ticked in another order than
\* the question lists them
C25_BothAnswersCounted ==
    /\ isExamMode /\ isExamFinished /\ examScore = MaxAnswered
    /\ Len(filteredQuestions) = EXAM_QUESTION_COUNT
    /\ \E q \in Range(filteredQuestions) :
          /\ q.correctAnswer.t = "array" /\ q.id \in DOMAIN userAnswers
          /\ userAnswers[q.id].t = "array" /\ userAnswers[q.id].v # q.correctAnswer.v

\* C26: the step that leaves exam mode (resetView) sets isExamMode and
\* isExamFinished to false, userAnswers to empty and examScore to 0, and
\* changes nothing else but the list the filter effect recomputes; showAllAnswers
\* stays as it is, so a reset that follows submitExam leaves the normal view with
\* showAllAnswers = true.
C26_ResetViewKeepsShowAllAnswers ==
    [][(isExamMode /\ ~isExamMode') =>
          /\ ~isExamFinished' /\ userAnswers' = NoAnswers /\ examScore' = 0
          /\ showAllAnswers' = showAllAnswers
          /\ questions' = questions /\ isLoading' = isLoading
          /\ searchQuery' = searchQuery /\ filters' = filters /\ sort' = sort
          /\ savedQuestionIds' = savedQuestionIds
          /\ uiVars' = uiVars
          /\ isExamFinished => showAllAnswers']_vars

\* C26 witness: the normal view with the answers shown, which only a reset
\* after a submitted exam brings about
C26_AnswersShownAfterReset ==
    ~isExamMode /\ ~isExamFinished /\ showAllAnswers /\ filteredQuestions # <<>>

idsOf(qs) == {qs[i].id : i \in 1..Len(qs)}

C28_NoUpdateLost ==
    [][Len(heldHandlers') < Len(heldHandlers) =>
          questions' = resultOf([call' EXCEPT !.questions = questions])]_vars

\* C29: on the export page, once the load timer has fired, isLoading is false
\* whatever sessionStorage holds under "questionsForExport": a text that
\* parses (the questions are shown), nothing (notification and redirect to
\* "/"), or a text that is not JSON (error notification).
C29_LoadingEndsWhenTimerFired ==
    exportTimer = "fired" =>
        /\ ~exportPageLoading
        /\ \/ sessionStored # NothingStored /\ sessionStored.json
              /\ exportPageQuestions = sessionStored.value
           \/ sessionStored = NothingStored /\ route = "/" /\ toasts # <<>>
           \/ sessionStored # NothingStored /\ ~sessionStored.json /\ toasts # <<>>

\* C30: in the explanation panel, whenever no explanation request is pending,
\* the explanation displayed is the response to the request issued last, which
\* is the one for the selected question at the selected level and language: a
\* response to an earlier request that arrives later does not replace it.
C30_LatestExplanationShown ==
    (explainRequests = <<>> /\ explanation # NoExplanation) =>
        explanation = Request(selectedQuestionForExplanation, level, language)
====
